---- MODULE Spec2Model ----
(***************************************************************************)
(* Model of the render-job orchestration of Szhimatar2:                    *)
(*   src-tauri/src/process_manager.rs  ProcessManager (the Job Registry)   *)
(*   src-tauri/src/main.rs             run_ffmpeg_render (the Job Runner), *)
(*                                     stop_ffmpeg_render, stop_all_renders*)
(*                                     (the Canceller)                     *)
(* The registry is one value behind one mutex (PROCESS_MANAGER).  A        *)
(* critical section that only touches the maps is one atomic action; the   *)
(* launch, which spawns the process while it holds the mutex, is split so  *)
(* that the states in which the mutex is held are visible.                 *)
(***************************************************************************)
EXTENDS Integers, Sequences, FiniteSets, TLC

(* ------------------------------ bounds -------------------------------- *)
\* number of calls of run_ffmpeg_render over a behaviour
MaxLaunches == 2
\* number of calls of stop_ffmpeg_render / stop_all_renders over a behaviour
MaxStops == 2
\* number of diagnostic lines the external tool writes to its stderr
MaxDiag == 2

\* runner slots: concurrently executing calls of run_ffmpeg_render
Runners == {1, 2}
\* job identifiers the GUI may submit
JobIds == {"a", "b"}

None == "none"
NoPid == 0
NoJob == "-"
NoHolder == 0
NoResult == [success |-> FALSE, error |-> None, event |-> None]

(* --------------------- ProcessManager (pure part) --------------------- *)

\* ProcessManager::new: both maps empty
NewProcesses == << >>
NewStopped == {}

\* RenderProcess: the metadata kept per job (paths and start time carry no
\* behaviour and are left out)
RenderProcess(j, p) == [id |-> j, pid |-> p]

\* an insert that keeps the record already stored under the key
processes_insert_keep_existing(procs, j, p) ==
    [k \in (DOMAIN procs) \cup {j} |->
        IF k \in DOMAIN procs THEN procs[k] ELSE RenderProcess(j, p)]

\* self.processes.insert(job_id, process): overwrite on an existing key
processes_insert(procs, j, p) ==
    [k \in (DOMAIN procs) \cup {j} |->
        IF k = j THEN RenderProcess(j, p) ELSE procs[k]]

\* ProcessManager::has_process
has_process(procs, j) == j \in DOMAIN procs

\* ProcessManager::get_pid, NoPid for Option::None
get_pid(procs, j) == IF j \in DOMAIN procs THEN procs[j].pid ELSE NoPid

\* ProcessManager::active_jobs
active_jobs(procs) == DOMAIN procs

\* ProcessManager::active_pids
active_pids(procs) == { <<j, procs[j].pid>> : j \in DOMAIN procs }

\* an active_count that only tells whether there is a record
active_count_nonempty(procs) == IF DOMAIN procs = {} THEN 0 ELSE 1

\* ProcessManager::active_count
active_count(procs) == Cardinality(DOMAIN procs)

\* eprintln! writes to the stderr of the application and panics when the
\* write fails (a pipe without reader).  `ok` tells whether the writes of the
\* call succeed; an operator that prints reports in `panicked` that it has
\* unwound from a print instead of returning, and `marked` is then no return
\* value.

\* ProcessManager::stop_render: mark only a job that has a record; either
\* branch prints (process_manager.rs 140, 143), after the insert
stop_render(procs, stp, j, ok) ==
    IF j \in DOMAIN procs
    THEN [marked |-> ok, stopped |-> stp \cup {j}, panicked |-> ~ok]
    ELSE [marked |-> FALSE, stopped |-> stp, panicked |-> ~ok]

\* the orders in which the HashMap may yield its keys
KeyOrders(procs) ==
    {ids \in [1..Cardinality(DOMAIN procs) -> DOMAIN procs] :
        \A i, k \in DOMAIN ids : i # k => ids[i] # ids[k]}

\* `for job_id in job_ids { let _ = self.stop_render(&job_id); }`: the loop
\* ends where a stop_render unwinds.  `written` is the number of prints that
\* are written before one fails (none fails when there are no more keys).
RECURSIVE stop_all_fold(_, _, _, _)
stop_all_fold(procs, stp, ids, written) ==
    IF ids = << >> THEN [stopped |-> stp, panicked |-> FALSE]
    ELSE IF written = 0
    THEN [stopped |-> stop_render(procs, stp, Head(ids), FALSE).stopped,
          panicked |-> TRUE]
    ELSE stop_all_fold(procs, stop_render(procs, stp, Head(ids), TRUE).stopped,
                       Tail(ids), written - 1)

\* ProcessManager::stop_all_renders: stop_render for every key, the keys
\* collected in the order ids
stop_all_renders(procs, stp, ids, written) ==
    stop_all_fold(procs, stp, ids, written)

\* the numbers of prints that a loop over the keys may get written: none
\* (the stderr is broken already) up to one per key
PrintCounts == 0..Cardinality(JobIds)

\* remove_process without `self.processes.remove(job_id)`
remove_process_keep_record(procs, stp, j, ok) ==
    [processes |-> procs,
     stopped   |-> stp \ {j},
     panicked  |-> j \in DOMAIN procs /\ ~ok]

\* ProcessManager::remove_process: drop the record and the stop flag; the
\* print of a removed record (process_manager.rs 162) comes between the two
\* removals
remove_process(procs, stp, j, ok) ==
    IF j \in DOMAIN procs /\ ~ok
    THEN [processes |-> [k \in (DOMAIN procs) \ {j} |-> procs[k]],
          stopped   |-> stp,
          panicked  |-> TRUE]
    ELSE [processes |-> [k \in (DOMAIN procs) \ {j} |-> procs[k]],
          stopped   |-> stp \ {j},
          panicked  |-> FALSE]

\* take_stopped that reads the flag and leaves it set
take_stopped_peek(stp, j) == [was |-> j \in stp, stopped |-> stp]

\* ProcessManager::take_stopped: HashSet::remove returns whether it was there
take_stopped(stp, j) == [was |-> j \in stp, stopped |-> stp \ {j}]

(* ------------------------- result classification ---------------------- *)

\* ExitStatus of the reaped child
StatusSuccess(st) == st = "exit_ok"
StatusCode(st) == IF st = "exit_ok" THEN "Some(0)"
                  ELSE IF st = "exit_fail" THEN "Some(1)" ELSE "None"

\* errors.join("\n")
RECURSIVE JoinLines(_)
JoinLines(errs) ==
    IF Len(errs) = 0 THEN ""
    ELSE IF Len(errs) = 1 THEN errs[1]
    ELSE errs[1] \o "\n" \o JoinLines(Tail(errs))

\* the k-th diagnostic line of the tool's stderr
DiagLine(k) == IF k = 1 THEN "Error: open" ELSE IF k = 2 THEN "Invalid data"
               ELSE "error: more"
\* the chain with the exit status tested before was_stopped
Classify_exit_first(was_stopped, st, errs) ==
    IF StatusSuccess(st)
    THEN [success |-> TRUE, error |-> None, event |-> "render-complete"]
    ELSE IF was_stopped
    THEN [success |-> FALSE, error |-> "stopped", event |-> "render-stopped"]
    ELSE [success |-> FALSE,
          error |-> IF errs = << >>
                    THEN "FFmpeg exited with code: " \o StatusCode(st)
                    ELSE JoinLines(errs),
          event |-> "render-error"]

\* the if/else chain that builds the RenderResult (main.rs 1235-1276)
Classify(was_stopped, st, errs) ==
    IF was_stopped
    THEN [success |-> FALSE, error |-> "stopped", event |-> "render-stopped"]
    ELSE IF StatusSuccess(st)
    THEN [success |-> TRUE, error |-> None, event |-> "render-complete"]
    ELSE [success |-> FALSE,
          error |-> IF errs = << >>
                    THEN "FFmpeg exited with code: " \o StatusCode(st)
                    ELSE JoinLines(errs),
          event |-> "render-error"]

(* ------------------------------- state -------------------------------- *)
VARIABLES
    processes,   \* ProcessManager.processes: job id -> RenderProcess
    stopped,     \* ProcessManager.stopped: set of job ids
    lock,        \* holder of the PROCESS_MANAGER mutex while a launch spawns
    poisoned,    \* the mutex is poisoned: a thread has panicked holding it
    ctx,         \* job id -> the RenderProcessContext made for it, if any
    launches,    \* job id -> calls of run_ffmpeg_render with it so far
    npid,        \* processes spawned so far (the last pid handed out)
    pc,          \* runner slot -> position in run_ffmpeg_render
    job,         \* runner slot -> job.job_id
    pid,         \* runner slot -> pid of its child
    proc,        \* runner slot -> state of the external process
    out,         \* runner slot -> stdout reader thread
    err,         \* runner slot -> stderr reader thread
    errors,      \* runner slot -> diagnostic lines collected by the reader
    status,      \* runner slot -> exit status returned by child.wait()
    wasStopped,  \* runner slot -> was_stopped
    removes,     \* runner slot -> calls of remove_process in this run
    result,      \* runner slot -> the RenderResult returned (None before)
    spc,         \* canceller position
    sjob,        \* canceller: request.job_id
    skill,       \* canceller: (job id, pid) pairs still to kill
    sret,        \* canceller: value returned by the last stop_ffmpeg_render
    spid,        \* canceller: pid the last stop_ffmpeg_render read
    nstops,      \* canceller calls so far
    notified     \* job id -> render-stopped events emitted by the canceller
                 \* during its current call, or its last one when returned

\* One run seen from its pipes: the command line handed to the tool and the
\* two reader threads, each consuming the lines of its stream.  These
\* variables move only in PipeSpec below.
VARIABLES
    rjob,        \* the RenderJob of the run (NoRenderJob outside PipeSpec)
    argv,        \* the argument vector passed to the tool (<< >> before)
    nread,       \* items the two readers have taken from their streams
    cur,         \* stdout reader: current_frame, current_fps, ... (its locals)
    diag,        \* stderr reader: `errors`, the diagnostic lines pushed so far
    snap,        \* the last "render-progress" payload emitted (NoSnap before)
    last,        \* the last item a reader took: channel, line, read error
    rd           \* reader -> "none" | "reading" | "closed"

pipevars == <<rjob, argv, nread, cur, diag, snap, last, rd>>

\* calls of run_ffmpeg_render so far
RECURSIVE SumOver(_, _)
SumOver(f, S) ==
    IF S = {} THEN 0
    ELSE LET x == CHOOSE y \in S : TRUE IN f[x] + SumOver(f, S \ {x})
NLaunches == SumOver(launches, JobIds)

regvars == <<processes, stopped, lock>>
sysvars == <<poisoned, ctx>>
runvars == <<launches, npid, pc, job, pid, proc, out, err, errors, status, wasStopped, removes, result>>
stopvars == <<spc, sjob, skill, sret, spid, nstops, notified>>
vars == <<processes, stopped, lock, poisoned, ctx, launches, npid, pc, job, pid, proc, out,
          err, errors, status, wasStopped, removes, result, spc, sjob,
          skill, sret, spid, nstops, notified,
          rjob, argv, nread, cur, diag, snap, last, rd>>

\* no run is looked at through its pipes
NoRenderJob == [job_id |-> NoJob, input_path |-> "", output_path |-> "", ffmpeg_args |-> << >>,
                duration_seconds |-> [n |-> 0, d |-> 1]]
NoSnap == [chan |-> "none"]
NoItem == [chan |-> "none", line |-> << >>, failed |-> FALSE]
NewCur == [frame |-> 0, fps |-> [n |-> 0, d |-> 1], time |-> [n |-> 0, d |-> 1],
           speed |-> [n |-> 0, d |-> 1], bitrate |-> << >>, size |-> << >>]
PipeOff ==
    /\ rjob = NoRenderJob
    /\ argv = << >>
    /\ nread = 0
    /\ cur = NewCur
    /\ diag = << >>
    /\ snap = NoSnap
    /\ last = NoItem
    /\ rd = [c \in {"stdout", "stderr"} |-> "none"]

\* the registry is new, no call is running
RegistryInit ==
    /\ processes = NewProcesses
    /\ stopped = NewStopped
    /\ lock = NoHolder
    /\ poisoned = FALSE
    /\ ctx = [j \in JobIds |-> None]
    /\ launches = [j \in JobIds |-> 0]
    /\ npid = 0
    /\ pc = [r \in Runners |-> "idle"]
    /\ job = [r \in Runners |-> NoJob]
    /\ pid = [r \in Runners |-> NoPid]
    /\ proc = [r \in Runners |-> None]
    /\ out = [r \in Runners |-> None]
    /\ err = [r \in Runners |-> None]
    /\ errors = [r \in Runners |-> << >>]
    /\ status = [r \in Runners |-> None]
    /\ wasStopped = [r \in Runners |-> FALSE]
    /\ removes = [r \in Runners |-> 0]
    /\ result = [r \in Runners |-> NoResult]
    /\ spc = "idle"
    /\ sjob = NoJob
    /\ skill = {}
    /\ sret = None
    /\ spid = NoPid
    /\ nstops = 0
    /\ notified = [j \in JobIds |-> 0]

Init == RegistryInit /\ PipeOff

(* --------------------------- the Job Runner --------------------------- *)

\* a slot is free before its first call and after a call has ended: with a
\* return value or, for "panicked", by unwinding
Free(r) ==
    pc[r] \in {"idle", "done", "not_configured", "spawn_failed", "wait_failed",
               "lock_failed", "panicked"}

\* run_ffmpeg_render is called with job id j and load_ffmpeg_config() gives an
\* empty ffmpeg_path: Err("FFmpeg path not configured") is returned at once,
\* before the mutex is asked for (1051-1055)
NotConfigured(r, j) ==
    /\ Free(r)
    /\ \A q \in Runners : q < r => ~Free(q)
    /\ NLaunches < MaxLaunches
    /\ NLaunches = 0 => j = "a"
    /\ launches' = [launches EXCEPT ![j] = launches[j] + 1]
    /\ pc' = [pc EXCEPT ![r] = "not_configured"]
    /\ job' = [job EXCEPT ![r] = j]
    /\ pid' = [pid EXCEPT ![r] = NoPid]
    /\ proc' = [proc EXCEPT ![r] = None]
    /\ out' = [out EXCEPT ![r] = None]
    /\ err' = [err EXCEPT ![r] = None]
    /\ errors' = [errors EXCEPT ![r] = << >>]
    /\ status' = [status EXCEPT ![r] = None]
    /\ wasStopped' = [wasStopped EXCEPT ![r] = FALSE]
    /\ removes' = [removes EXCEPT ![r] = 0]
    /\ result' = [result EXCEPT ![r] = NoResult]
    /\ UNCHANGED <<processes, stopped, lock, npid>>
    /\ UNCHANGED stopvars
    /\ UNCHANGED sysvars
    /\ UNCHANGED pipevars

\* run_ffmpeg_render is called with job id j, the ffmpeg_path is configured
\* and PROCESS_MANAGER.lock() finds the mutex poisoned: the call returns
\* Err("Failed to lock ProcessManager: ..") before any spawn (1066-1067)
LaunchLockErr(r, j) ==
    /\ Free(r)
    /\ \A q \in Runners : q < r => ~Free(q)
    /\ NLaunches < MaxLaunches
    /\ NLaunches = 0 => j = "a"
    /\ lock = NoHolder
    /\ poisoned
    /\ launches' = [launches EXCEPT ![j] = launches[j] + 1]
    /\ pc' = [pc EXCEPT ![r] = "lock_failed"]
    /\ job' = [job EXCEPT ![r] = j]
    /\ pid' = [pid EXCEPT ![r] = NoPid]
    /\ proc' = [proc EXCEPT ![r] = None]
    /\ out' = [out EXCEPT ![r] = None]
    /\ err' = [err EXCEPT ![r] = None]
    /\ errors' = [errors EXCEPT ![r] = << >>]
    /\ status' = [status EXCEPT ![r] = None]
    /\ wasStopped' = [wasStopped EXCEPT ![r] = FALSE]
    /\ removes' = [removes EXCEPT ![r] = 0]
    /\ result' = [result EXCEPT ![r] = NoResult]
    /\ UNCHANGED <<processes, stopped, lock, npid>>
    /\ UNCHANGED stopvars
    /\ UNCHANGED sysvars
    /\ UNCHANGED pipevars

\* run_ffmpeg_render is called with job id j, the ffmpeg_path is configured
\* and the call takes the mutex (1051-1067).
\* The slots are interchangeable, so a call goes to the lowest free one, and
\* so are the job ids, so the first call is made with "a".
Launch(r, j) ==
    /\ Free(r)
    /\ \A q \in Runners : q < r => ~Free(q)
    /\ NLaunches < MaxLaunches
    /\ NLaunches = 0 => j = "a"
    /\ lock = NoHolder
    /\ ~poisoned
    /\ lock' = r
    /\ launches' = [launches EXCEPT ![j] = launches[j] + 1]
    /\ pc' = [pc EXCEPT ![r] = "spawning"]
    /\ job' = [job EXCEPT ![r] = j]
    /\ pid' = [pid EXCEPT ![r] = NoPid]
    /\ proc' = [proc EXCEPT ![r] = None]
    /\ out' = [out EXCEPT ![r] = None]
    /\ err' = [err EXCEPT ![r] = None]
    /\ errors' = [errors EXCEPT ![r] = << >>]
    /\ status' = [status EXCEPT ![r] = None]
    /\ wasStopped' = [wasStopped EXCEPT ![r] = FALSE]
    /\ removes' = [removes EXCEPT ![r] = 0]
    /\ result' = [result EXCEPT ![r] = NoResult]
    /\ UNCHANGED <<processes, stopped, npid>>
    /\ UNCHANGED stopvars
    /\ UNCHANGED sysvars
    /\ UNCHANGED pipevars

\* a spawn_render that inserts the record before it spawns, and fails
SpawnFail_after_insert(r) ==
    /\ pc[r] = "spawning"
    /\ lock = r
    /\ lock' = NoHolder
    /\ processes' = processes_insert(processes, job[r], NoPid)
    /\ pc' = [pc EXCEPT ![r] = "spawn_failed"]
    /\ UNCHANGED <<stopped, launches, npid, job, pid, proc, out, err,
                   errors, status, wasStopped, removes, result>>
    /\ UNCHANGED stopvars
    /\ UNCHANGED sysvars
    /\ UNCHANGED pipevars

\* cmd.spawn() fails: spawn_render returns Err through `?`, nothing inserted,
\* the guard is dropped (process_manager.rs 97-98, main.rs 1075)
SpawnFail(r) ==
    /\ pc[r] = "spawning"
    /\ lock = r
    /\ lock' = NoHolder
    /\ pc' = [pc EXCEPT ![r] = "spawn_failed"]
    /\ UNCHANGED <<processes, stopped, launches, npid, job, pid, proc, out, err,
                   errors, status, wasStopped, removes, result>>
    /\ UNCHANGED stopvars
    /\ UNCHANGED sysvars
    /\ UNCHANGED pipevars

\* a launch whose mutex guard ends with the spawn, before the insert
SpawnOk_unlocked(r) ==
    /\ pc[r] = "spawning"
    /\ lock = r
    /\ lock' = NoHolder
    /\ npid' = npid + 1
    /\ pid' = [pid EXCEPT ![r] = npid + 1]
    /\ proc' = [proc EXCEPT ![r] = "running"]
    /\ pc' = [pc EXCEPT ![r] = "registering"]
    /\ UNCHANGED <<processes, stopped, launches, job, out, err, errors,
                   status, wasStopped, removes, result>>
    /\ UNCHANGED stopvars
    /\ UNCHANGED sysvars
    /\ UNCHANGED pipevars

\* cmd.spawn() succeeds inside spawn_render, the mutex still held (97-101)
SpawnOk(r) ==
    /\ pc[r] = "spawning"
    /\ lock = r
    /\ npid' = npid + 1
    /\ pid' = [pid EXCEPT ![r] = npid + 1]
    /\ proc' = [proc EXCEPT ![r] = "running"]
    /\ pc' = [pc EXCEPT ![r] = "registering"]
    /\ UNCHANGED <<processes, stopped, lock, launches, job, out, err, errors,
                   status, wasStopped, removes, result>>
    /\ UNCHANGED stopvars
    /\ UNCHANGED sysvars
    /\ UNCHANGED pipevars

\* a launch whose mutex guard outlives the block, into the wait for the exit
Register_keep_lock(r) ==
    /\ pc[r] = "registering"
    /\ processes' = processes_insert(processes, job[r], pid[r])
    /\ pc' = [pc EXCEPT ![r] = "registered"]
    /\ UNCHANGED <<stopped, lock, launches, npid, job, pid, proc, out, err,
                   errors, status, wasStopped, removes, result>>
    /\ UNCHANGED stopvars
    /\ UNCHANGED sysvars
    /\ UNCHANGED pipevars

\* self.processes.insert, spawn_render returns, the guard is dropped at the
\* end of the block (process_manager.rs 113-118, main.rs 1078-1079)
Register(r) ==
    /\ pc[r] = "registering"
    /\ processes' = processes_insert(processes, job[r], pid[r])
    /\ lock' = NoHolder
    /\ pc' = [pc EXCEPT ![r] = "registered"]
    /\ UNCHANGED <<stopped, launches, npid, job, pid, proc, out, err, errors,
                   status, wasStopped, removes, result>>
    /\ UNCHANGED stopvars
    /\ UNCHANGED sysvars
    /\ UNCHANGED pipevars

\* the two reader threads are spawned (main.rs 1081-1203)
StartReaders(r) ==
    /\ pc[r] = "registered"
    /\ out' = [out EXCEPT ![r] = "running"]
    /\ err' = [err EXCEPT ![r] = "running"]
    /\ pc' = [pc EXCEPT ![r] = "wait"]
    /\ UNCHANGED regvars
    /\ UNCHANGED <<launches, npid, job, pid, proc, errors, status,
                   wasStopped, removes, result>>
    /\ UNCHANGED stopvars
    /\ UNCHANGED sysvars
    /\ UNCHANGED pipevars

\* the process has terminated and closed its ends of the pipes
Exited(r) == proc[r] \in {"exit_ok", "exit_fail", "killed", "reaped"}

\* child.wait() returns Ok(status) once the process has exited (1206)
Wait(r) ==
    /\ pc[r] = "wait"
    /\ proc[r] \in {"exit_ok", "exit_fail", "killed"}
    /\ status' = [status EXCEPT ![r] = proc[r]]
    /\ proc' = [proc EXCEPT ![r] = "reaped"]
    /\ pc' = [pc EXCEPT ![r] = "take"]
    /\ UNCHANGED regvars
    /\ UNCHANGED <<launches, npid, job, pid, out, err, errors, wasStopped, removes, result>>
    /\ UNCHANGED stopvars
    /\ UNCHANGED sysvars
    /\ UNCHANGED pipevars

\* child.wait() returns Err: `?` returns from run_ffmpeg_render at once (1206).
\* The Child and both JoinHandles are dropped: the process and the reader
\* threads are detached and the runner observes nothing of them any more.
WaitErr(r) ==
    /\ pc[r] = "wait"
    /\ pc' = [pc EXCEPT ![r] = "wait_failed"]
    /\ proc' = [proc EXCEPT ![r] = "detached"]
    /\ out' = [out EXCEPT ![r] = "detached"]
    /\ err' = [err EXCEPT ![r] = "detached"]
    /\ UNCHANGED regvars
    /\ UNCHANGED <<launches, npid, job, pid, errors, status, wasStopped,
                   removes, result>>
    /\ UNCHANGED stopvars
    /\ UNCHANGED sysvars
    /\ UNCHANGED pipevars

\* the lock() of the take_stopped block finds the mutex poisoned: `?` returns
\* Err from run_ffmpeg_render (1210-1211).  The record stays in the registry
\* and both JoinHandles are dropped, which detaches the reader threads.
TakeStoppedLockErr(r) ==
    /\ pc[r] = "take"
    /\ lock = NoHolder
    /\ poisoned
    /\ pc' = [pc EXCEPT ![r] = "lock_failed"]
    /\ out' = [out EXCEPT ![r] = "detached"]
    /\ err' = [err EXCEPT ![r] = "detached"]
    /\ status' = [status EXCEPT ![r] = None]
    /\ UNCHANGED regvars
    /\ UNCHANGED <<launches, npid, job, pid, proc, errors, wasStopped,
                   removes, result>>
    /\ UNCHANGED stopvars
    /\ UNCHANGED sysvars
    /\ UNCHANGED pipevars

\* was_stopped = manager.take_stopped(&job_id_final) under the mutex (1209-1213)
TakeStopped(r) ==
    /\ pc[r] = "take"
    /\ lock = NoHolder
    /\ ~poisoned
    /\ LET t == take_stopped(stopped, job[r])
       IN /\ wasStopped' = [wasStopped EXCEPT ![r] = t.was]
          /\ stopped' = t.stopped
    /\ pc' = [pc EXCEPT ![r] = "join"]
    /\ UNCHANGED <<processes, lock, launches, npid, job, pid, proc, out, err,
                   errors, status, removes, result>>
    /\ UNCHANGED stopvars
    /\ UNCHANGED sysvars
    /\ UNCHANGED pipevars

\* the first n diagnostic lines of the tool's stderr, in the order written
DiagLines(n) == [k \in 1..n |-> DiagLine(k)]

\* the numbers of diagnostic lines a run of the tool is taken to write: none,
\* or as many as the bound allows
DiagCounts == {0, MaxDiag}

\* the stdout reader leaves `for line in reader.lines()` at the end of its
\* stream and its thread ends (1094-1158).  The end of the stream comes when
\* every write end of the pipe is closed: the tool may close its stdout while
\* it runs, and a process that has inherited the pipe may keep it open after
\* the tool has exited, so the step is tied to no state of the process.
StdoutEnd(r) ==
    /\ out[r] = "running"
    /\ out' = [out EXCEPT ![r] = "done"]
    /\ UNCHANGED regvars
    /\ UNCHANGED <<launches, npid, pc, job, pid, proc, err, errors, status,
                   wasStopped, removes, result>>
    /\ UNCHANGED stopvars
    /\ UNCHANGED sysvars
    /\ UNCHANGED pipevars

\* the stderr reader reaches the end of its stream, at whatever state of the
\* process, and its thread ends with the lines it has collected (1161-1203)
StderrEnd(r) ==
    /\ err[r] = "running"
    /\ err' = [err EXCEPT ![r] = "done"]
    /\ UNCHANGED regvars
    /\ UNCHANGED <<launches, npid, pc, job, pid, proc, out, errors, status,
                   wasStopped, removes, result>>
    /\ UNCHANGED stopvars
    /\ UNCHANGED sysvars
    /\ UNCHANGED pipevars

\* a runner that goes past the first join while the stdout reader still runs
JoinStdout_nojoin(r) ==
    /\ pc[r] = "join"
    /\ pc' = [pc EXCEPT ![r] = "join_stderr"]
    /\ UNCHANGED regvars
    /\ UNCHANGED <<launches, npid, job, pid, proc, out, err, errors, status,
                   wasStopped, removes, result>>
    /\ UNCHANGED stopvars
    /\ UNCHANGED sysvars
    /\ UNCHANGED pipevars

\* `let _ = stdout_handle.join()` returns when the stdout reader has ended
\* (1216); the mutex is not needed
JoinStdout(r) ==
    /\ pc[r] = "join"
    /\ out[r] = "done"
    /\ pc' = [pc EXCEPT ![r] = "join_stderr"]
    /\ UNCHANGED regvars
    /\ UNCHANGED <<launches, npid, job, pid, proc, out, err, errors, status,
                   wasStopped, removes, result>>
    /\ UNCHANGED stopvars
    /\ UNCHANGED sysvars
    /\ UNCHANGED pipevars

\* a second join that returns while the stderr reader still runs
JoinStderr_nowait(r, n) ==
    /\ pc[r] = "join_stderr"
    /\ errors' = [errors EXCEPT ![r] = DiagLines(n)]
    /\ pc' = [pc EXCEPT ![r] = "remove"]
    /\ UNCHANGED regvars
    /\ UNCHANGED <<launches, npid, job, pid, proc, out, err, status,
                   wasStopped, removes, result>>
    /\ UNCHANGED stopvars
    /\ UNCHANGED sysvars
    /\ UNCHANGED pipevars

\* `let errors = stderr_handle.join().unwrap_or_default()` returns when the
\* stderr reader has ended (1217); the reader has pushed the n lines that
\* contain "Error", "error" or "Invalid" in arrival order and the join hands
\* them to the runner.  Until then they are local to the reader thread.
JoinStderr(r, n) ==
    /\ pc[r] = "join_stderr"
    /\ err[r] = "done"
    /\ errors' = [errors EXCEPT ![r] = DiagLines(n)]
    /\ pc' = [pc EXCEPT ![r] = "remove"]
    /\ UNCHANGED regvars
    /\ UNCHANGED <<launches, npid, job, pid, proc, out, err, status,
                   wasStopped, removes, result>>
    /\ UNCHANGED stopvars
    /\ UNCHANGED sysvars
    /\ UNCHANGED pipevars

\* the lock() of the cleanup block finds the mutex poisoned: `?` returns Err
\* from run_ffmpeg_render (1221-1222), the record stays
RemoveLockErr(r) ==
    /\ pc[r] = "remove"
    /\ lock = NoHolder
    /\ poisoned
    /\ pc' = [pc EXCEPT ![r] = "lock_failed"]
    /\ errors' = [errors EXCEPT ![r] = << >>]
    /\ status' = [status EXCEPT ![r] = None]
    /\ wasStopped' = [wasStopped EXCEPT ![r] = FALSE]
    /\ UNCHANGED regvars
    /\ UNCHANGED <<launches, npid, job, pid, proc, out, err, removes, result>>
    /\ UNCHANGED stopvars
    /\ UNCHANGED sysvars
    /\ UNCHANGED pipevars

\* manager.remove_process(&job_id_final) under the mutex (1220-1225); `ok`
\* is whether the write of its print succeeds.  When remove_process unwinds
\* from the print, the guard is dropped by the unwinding, which poisons the
\* mutex, and the call of run_ffmpeg_render ends without a result and
\* without a terminal event; its locals end with it.  Every print of the
\* application is made under the mutex, so the first print that fails is the
\* last one made.
Remove(r, ok) ==
    /\ pc[r] = "remove"
    /\ lock = NoHolder
    /\ ~poisoned
    /\ LET m == remove_process(processes, stopped, job[r], ok)
       IN /\ processes' = m.processes
          /\ stopped' = m.stopped
          /\ poisoned' = m.panicked
          /\ pc' = [pc EXCEPT ![r] = IF m.panicked THEN "panicked"
                                     ELSE "classify"]
          /\ errors' = IF m.panicked THEN [errors EXCEPT ![r] = << >>]
                       ELSE errors
          /\ status' = IF m.panicked THEN [status EXCEPT ![r] = None]
                       ELSE status
          /\ wasStopped' = IF m.panicked
                           THEN [wasStopped EXCEPT ![r] = FALSE]
                           ELSE wasStopped
    /\ removes' = [removes EXCEPT ![r] = removes[r] + 1]
    /\ UNCHANGED <<lock, ctx>>
    /\ UNCHANGED <<launches, npid, job, pid, proc, out, err, result>>
    /\ UNCHANGED stopvars
    /\ UNCHANGED pipevars

\* the terminal event is emitted and Ok(RenderResult) returned (1235-1276);
\* status, was_stopped and errors are locals of the call and end with it
Finish(r) ==
    /\ pc[r] = "classify"
    /\ result' = [result EXCEPT
                    ![r] = Classify(wasStopped[r], status[r], errors[r])]
    /\ pc' = [pc EXCEPT ![r] = "done"]
    /\ errors' = [errors EXCEPT ![r] = << >>]
    /\ status' = [status EXCEPT ![r] = None]
    /\ wasStopped' = [wasStopped EXCEPT ![r] = FALSE]
    /\ UNCHANGED regvars
    /\ UNCHANGED <<launches, npid, job, pid, proc, out, err, removes>>
    /\ UNCHANGED stopvars
    /\ UNCHANGED sysvars
    /\ UNCHANGED pipevars

(* ----------------- the external process and the readers --------------- *)

\* the tool exits by itself, with code 0 or with a failure code, at any
\* moment after its spawn: also before its record is inserted and before the
\* readers are started
ProcExit(r, st) ==
    /\ proc[r] = "running"
    /\ st \in {"exit_ok", "exit_fail"}
    /\ proc' = [proc EXCEPT ![r] = st]
    /\ UNCHANGED regvars
    /\ UNCHANGED <<launches, npid, pc, job, pid, out, err, errors, status,
                   wasStopped, removes, result>>
    /\ UNCHANGED stopvars
    /\ UNCHANGED sysvars
    /\ UNCHANGED pipevars

(* ---------------------------- the Canceller --------------------------- *)

\* no stop command is running: none was called, or the last one has returned
\* or has unwound
CancellerFree == spc \in {"idle", "returned", "panicked"}

\* the effect of `kill -9 <pid>` / `taskkill /PID <pid> /F`; `ok` is whether
\* the OS call took effect.  Only a process that is still running changes.
KillPid(p, ok) ==
    [r \in Runners |->
        IF ok /\ pid[r] = p /\ proc[r] = "running" THEN "killed" ELSE proc[r]]

\* stop_ffmpeg_render(job id j) finds the mutex poisoned: Err(e.to_string())
\* (1293)
StopLockErr(j) ==
    /\ CancellerFree
    /\ nstops < MaxStops
    /\ lock = NoHolder
    /\ poisoned
    /\ nstops' = nstops + 1
    /\ sjob' = j
    /\ spid' = NoPid
    /\ spc' = "returned"
    /\ sret' = "lock_error"
    /\ skill' = {}
    /\ notified' = [k \in JobIds |-> 0]
    /\ UNCHANGED regvars
    /\ UNCHANGED runvars
    /\ UNCHANGED sysvars
    /\ UNCHANGED pipevars

\* stop_ffmpeg_render(job id j), its locked block (1288-1304): stop_render,
\* then either `return Ok(false)` or get_pid.  A print that fails, in
\* stop_render or in the not-found branch (1297-1298, diagnose), unwinds
\* the command with the guard held: the mutex is poisoned, nothing is
\* killed, emitted or returned; the prints of the not-found branch change
\* nothing in the registry, so they are one outcome with stop_render's.
\* `ok` is whether the writes of the prints succeed.
StopMark(j, ok) ==
    /\ CancellerFree
    /\ nstops < MaxStops
    /\ lock = NoHolder
    /\ ~poisoned
    /\ nstops' = nstops + 1
    /\ sjob' = j
    /\ LET m == stop_render(processes, stopped, j, ok)
       IN /\ stopped' = m.stopped
          /\ poisoned' = m.panicked
          /\ IF m.panicked
             THEN /\ spid' = NoPid
                  /\ spc' = "panicked"
                  /\ sret' = None
             ELSE IF m.marked
             THEN /\ spid' = get_pid(processes, j)
                  /\ spc' = "kill"
                  /\ sret' = None
             ELSE /\ spid' = NoPid
                  /\ spc' = "returned"
                  /\ sret' = "false"
    /\ UNCHANGED <<processes, lock, ctx>>
    /\ notified' = [k \in JobIds |-> 0]
    /\ UNCHANGED runvars
    /\ skill' = {}
    /\ UNCHANGED pipevars

\* the kill by pid: Command::output() runs `kill -9 <pid>` (`taskkill /PID
\* <pid> /F`) and waits for it; its result is dropped (1307-1327)
StopKill(ok) ==
    /\ spc = "kill"
    /\ proc' = IF spid # NoPid THEN KillPid(spid, ok) ELSE proc
    /\ spc' = "emit"
    /\ UNCHANGED regvars
    /\ UNCHANGED <<launches, npid, pc, job, pid, out, err, errors, status,
                   wasStopped, removes, result>>
    /\ UNCHANGED <<sjob, skill, sret, spid, nstops, notified>>
    /\ UNCHANGED sysvars
    /\ UNCHANGED pipevars

\* the "render-stopped" event and `Ok(true)` (1329-1336)
StopEmit ==
    /\ spc = "emit"
    /\ notified' = [notified EXCEPT ![sjob] = notified[sjob] + 1]
    /\ sret' = "true"
    /\ spc' = "returned"
    /\ UNCHANGED regvars
    /\ UNCHANGED runvars
    /\ UNCHANGED <<sjob, skill, spid, nstops>>
    /\ UNCHANGED sysvars
    /\ UNCHANGED pipevars

\* stop_all_renders (the command) finds the mutex poisoned:
\* Err(e.to_string()) (1343)
StopAllLockErr ==
    /\ CancellerFree
    /\ nstops < MaxStops
    /\ lock = NoHolder
    /\ poisoned
    /\ nstops' = nstops + 1
    /\ sjob' = NoJob
    /\ spid' = NoPid
    /\ spc' = "returned"
    /\ sret' = "lock_error"
    /\ skill' = {}
    /\ notified' = [k \in JobIds |-> 0]
    /\ UNCHANGED regvars
    /\ UNCHANGED runvars
    /\ UNCHANGED sysvars
    /\ UNCHANGED pipevars

\* stop_all_renders (the command), its locked block (1341-1349): snapshot
\* active_pids, then ProcessManager::stop_all_renders, whose loop takes the
\* keys in the order ids.  When a stop_render of the loop unwinds, the
\* command ends there: the mutex is poisoned and the snapshot is lost.
\* `written` is the number of prints of the loop that are written.
StopAllMark(written) ==
    /\ CancellerFree
    /\ nstops < MaxStops
    /\ lock = NoHolder
    /\ ~poisoned
    /\ nstops' = nstops + 1
    /\ \E ids \in KeyOrders(processes) :
          LET m == stop_all_renders(processes, stopped, ids, written)
          IN /\ stopped' = m.stopped
             /\ poisoned' = m.panicked
             /\ skill' = IF m.panicked THEN {} ELSE active_pids(processes)
             /\ spc' = IF m.panicked THEN "panicked" ELSE "killall"
    /\ UNCHANGED <<processes, lock, ctx>>
    /\ notified' = [k \in JobIds |-> 0]
    /\ sjob' = NoJob /\ sret' = None /\ spid' = NoPid
    /\ UNCHANGED runvars
    /\ UNCHANGED pipevars

\* an iteration of `for (job_id, pid) in pids` begins: the kill of the pair,
\* waited for (1352-1368).  The pairs come in the order of the HashMap.
StopAllKill(pair, ok) ==
    /\ spc = "killall"
    /\ pair \in skill
    /\ proc' = KillPid(pair[2], ok)
    /\ skill' = skill \ {pair}
    /\ sjob' = pair[1]
    /\ spid' = pair[2]
    /\ spc' = "emitall"
    /\ UNCHANGED regvars
    /\ UNCHANGED <<launches, npid, pc, job, pid, out, err, errors, status,
                   wasStopped, removes, result>>
    /\ UNCHANGED <<sret, nstops, notified>>
    /\ UNCHANGED sysvars
    /\ UNCHANGED pipevars

\* the iteration ends with the "render-stopped" event of its job (1370-1373)
StopAllEmit ==
    /\ spc = "emitall"
    /\ notified' = [notified EXCEPT ![sjob] = notified[sjob] + 1]
    /\ sjob' = NoJob
    /\ spid' = NoPid
    /\ spc' = "killall"
    /\ UNCHANGED regvars
    /\ UNCHANGED runvars
    /\ UNCHANGED <<skill, sret, nstops>>
    /\ UNCHANGED sysvars
    /\ UNCHANGED pipevars

\* the loop is over, Ok(()) (1376)
StopAllReturn ==
    /\ spc = "killall"
    /\ skill = {}
    /\ spc' = "returned"
    /\ sret' = "unit"
    /\ UNCHANGED regvars
    /\ UNCHANGED runvars
    /\ UNCHANGED <<sjob, skill, spid, nstops, notified>>
    /\ UNCHANGED sysvars
    /\ UNCHANGED pipevars

(* --------------------------- specification ---------------------------- *)

Next ==
    \/ \E r \in Runners, j \in JobIds : NotConfigured(r, j)
    \/ \E r \in Runners, j \in JobIds : LaunchLockErr(r, j)
    \/ \E r \in Runners, j \in JobIds : Launch(r, j)
    \/ \E r \in Runners : SpawnFail(r)
    \/ \E r \in Runners : SpawnOk(r)
    \/ \E r \in Runners : Register(r)
    \/ \E r \in Runners : StartReaders(r)
    \/ \E r \in Runners : Wait(r)
    \/ \E r \in Runners : WaitErr(r)
    \/ \E r \in Runners : TakeStoppedLockErr(r)
    \/ \E r \in Runners : TakeStopped(r)
    \/ \E r \in Runners : StdoutEnd(r)
    \/ \E r \in Runners : StderrEnd(r)
    \/ \E r \in Runners : JoinStdout(r)
    \/ \E r \in Runners, n \in DiagCounts : JoinStderr(r, n)
    \/ \E r \in Runners : RemoveLockErr(r)
    \/ \E r \in Runners, ok \in BOOLEAN : Remove(r, ok)
    \/ \E r \in Runners : Finish(r)
    \/ \E r \in Runners, st \in {"exit_ok", "exit_fail"} : ProcExit(r, st)
    \/ \E j \in JobIds : StopLockErr(j)
    \/ \E j \in JobIds, ok \in BOOLEAN : StopMark(j, ok)
    \/ \E ok \in BOOLEAN : StopKill(ok)
    \/ StopEmit
    \/ StopAllLockErr
    \/ \E written \in PrintCounts : StopAllMark(written)
    \/ \E pair \in skill, ok \in BOOLEAN : StopAllKill(pair, ok)
    \/ StopAllEmit
    \/ StopAllReturn

Spec == Init /\ [][Next]_vars

(* ------------------- the unused RenderProcessContext ------------------- *)

\* RenderProcessContext::new(job id j, ..) (process_manager.rs 234-257):
\* under the mutex, spawn_render spawns a process and inserts its record; the
\* Child stays in the context and no runner waits for it.  An Err (poisoned
\* mutex, failed spawn) leaves nothing behind.
ContextNew(j) ==
    /\ ctx[j] = None
    /\ lock = NoHolder
    /\ ~poisoned
    /\ npid' = npid + 1
    /\ processes' = processes_insert(processes, j, npid + 1)
    /\ ctx' = [ctx EXCEPT ![j] = "alive"]
    /\ UNCHANGED <<stopped, lock, poisoned>>
    /\ UNCHANGED <<launches, pc, job, pid, proc, out, err, errors, status,
                   wasStopped, removes, result>>
    /\ UNCHANGED stopvars
    /\ UNCHANGED pipevars

\* RenderProcessContext::cleanup(self) (process_manager.rs 260-266):
\* remove_process(job_id) under the mutex, or Err when the mutex is
\* poisoned; the context is consumed either way
ContextCleanup(j, ok) ==
    /\ ctx[j] = "alive"
    /\ lock = NoHolder
    /\ LET m == remove_process(processes, stopped, j, ok)
       IN IF poisoned
          THEN UNCHANGED <<processes, stopped, poisoned>>
          ELSE /\ processes' = m.processes
               /\ stopped' = m.stopped
               /\ poisoned' = m.panicked
    /\ ctx' = [ctx EXCEPT ![j] = "gone"]
    /\ UNCHANGED lock
    /\ UNCHANGED runvars
    /\ UNCHANGED stopvars
    /\ UNCHANGED pipevars

\* main.rs declares `mod process_manager` and uses PROCESS_MANAGER only: no
\* command of the application makes a RenderProcessContext, so Next has no
\* step of it.  ApiSpec is the registry with these two functions called as
\* well.
ApiNext ==
    \/ Next
    \/ \E j \in JobIds : ContextNew(j)
    \/ \E j \in JobIds, ok \in BOOLEAN : ContextCleanup(j, ok)

ApiSpec == Init /\ [][ApiNext]_vars

(* -------------------- the OS hands out a pid again --------------------- *)

\* the pids that something still holds: the records of the registry and
\* the pids a stop call has read and not yet killed
HeldPids ==
    {processes[j].pid : j \in DOMAIN processes}
        \cup (IF spc = "kill" THEN {spid} ELSE {})
        \cup {pair[2] : pair \in skill}

\* the pids which the OS is free to give to a new process: those of
\* processes that are gone, reaped by child.wait() or gone with a child.wait()
\* that failed, whether or not the slot still shows the call that ran them.
\* A reused number differs from a new one only while something still holds
\* it.
ReusablePids ==
    {p \in HeldPids \ {NoPid} :
        \A q \in Runners : pid[q] = p => proc[q] \in {"reaped", "detached"}}

\* cmd.spawn() succeeds as in SpawnOk and child.id() is a pid that a reaped
\* process had (process_manager.rs 97-101)
SpawnOkReused(r) ==
    /\ pc[r] = "spawning"
    /\ lock = r
    /\ \E p \in ReusablePids : pid' = [pid EXCEPT ![r] = p]
    /\ proc' = [proc EXCEPT ![r] = "running"]
    /\ pc' = [pc EXCEPT ![r] = "registering"]
    /\ UNCHANGED <<processes, stopped, lock, launches, npid, job, out, err, errors,
                   status, wasStopped, removes, result>>
    /\ UNCHANGED stopvars
    /\ UNCHANGED sysvars
    /\ UNCHANGED pipevars

ReuseNext ==
    \/ Next
    \/ \E r \in Runners : SpawnOkReused(r)

ReuseSpec == Init /\ [][ReuseNext]_vars

(* ------------------------------- claims ------------------------------- *)

\* the job identifier of slot r has been submitted once only (the identifier
\* is unique, as the RenderJob data model requires)
Alone(r) == launches[job[r]] = 1

\* the result of slot r is the "stopped" result
IsStopped(res) == ~res.success /\ res.error = "stopped"

\* the registry still holds the record that slot r inserted
OwnRecord(r) == get_pid(processes, job[r]) = pid[r] /\ pid[r] # NoPid

\* C1 (as stated): whenever stop_ffmpeg_render has returned true for the
\* process of a run, the RenderResult of that run is the "stopped" result.
C1_StopTakesPrecedence ==
    \A r \in Runners :
        (pc[r] = "done" /\ spc = "returned" /\ sret = "true" /\ spid = pid[r])
            => IsStopped(result[r])

\* C2 (as stated): no run of a launched job ends, by a result or by the
\* error of child.wait(), with its ProcessRecord or its stop flag still in
\* the registry.
C2_UnregisteredOnEveryExit ==
    \A r \in Runners :
        pc[r] \in {"done", "wait_failed"}
            => /\ ~OwnRecord(r)
               /\ Alone(r) => job[r] \notin stopped

\* C3 (as stated): the StopSet is a subset of the job identifiers that have
\* a ProcessRecord, in every reachable state.
C3_StopSetSubsetOfActive == stopped \subseteq active_jobs(processes)

\* C4: from the spawn to the hand-off the launcher holds the registry mutex,
\* so no stop can look the job up in between, and at the hand-off the
\* registry holds the record with the pid of the spawned process.
C4_RegisteredBeforeHandOff ==
    /\ [](\A r \in Runners : pc[r] = "registering" => lock = r)
    /\ [][\A r \in Runners :
            (pc[r] = "registering" /\ pc'[r] # "registering")
                => /\ pc'[r] = "registered"
                   /\ get_pid(processes', job[r]) = pid[r]
                   /\ pid[r] # NoPid]_vars

\* C4 witness: a process has been spawned, its record is not yet inserted,
\* an earlier run is registered and the canceller is free to issue a stop
C4_Witness ==
    \E r \in Runners :
        /\ pc[r] = "registering"
        /\ proc[r] = "running"
        /\ ~has_process(processes, job[r])
        /\ spc = "idle"
        /\ nstops < MaxStops
        /\ active_count(processes) = 1

\* C5 (as stated): every run of a launched job that has ended has produced
\* its RenderResult, and the job then has neither a ProcessRecord nor a
\* stop flag.
C5_OneResultAndClean ==
    \A r \in Runners :
        pc[r] \in {"done", "wait_failed"}
            => /\ result[r] # NoResult
               /\ ~OwnRecord(r)
               /\ Alone(r) => job[r] \notin stopped

\* C6: when a run has produced its result, on whichever branch,
\* remove_process has run exactly once in that run; after a success with no
\* stop requested the identifier is not in active_jobs().
C6_CleanupExactlyOnce ==
    \A r \in Runners :
        result[r] # NoResult
            => /\ removes[r] = 1
               /\ Alone(r) => job[r] \notin active_jobs(processes)

\* C6 witness: a run completed successfully with no stop requested while
\* another job is still registered
C6_Witness ==
    \E r \in Runners :
        /\ pc[r] = "done"
        /\ result[r].success
        /\ nstops = 0
        /\ Alone(r)
        /\ active_count(processes) = 1

\* the diagnostic lines joined by newline, built from the last line back
RECURSIVE LinesInOrder(_)
LinesInOrder(errs) ==
    IF Len(errs) = 1 THEN errs[1]
    ELSE LinesInOrder(SubSeq(errs, 1, Len(errs) - 1)) \o "\n" \o errs[Len(errs)]

\* C7: the result is classified in strict priority: stop flag set, then
\* exit status success, then diagnostic lines joined by newline in arrival
\* order, then the generic exit-code message.  Stated on the step that
\* returns the result, over the values the call holds at that step.
C7_ClassificationPriority ==
    [][\A r \in Runners :
        (pc[r] = "classify" /\ pc'[r] = "done") =>
            /\ wasStopped[r] => IsStopped(result'[r])
            /\ (~wasStopped[r] /\ status[r] = "exit_ok")
                  => result'[r].success /\ result'[r].error = None
            /\ (~wasStopped[r] /\ status[r] # "exit_ok" /\ errors[r] # << >>)
                  => /\ ~result'[r].success
                     /\ result'[r].error = LinesInOrder(errors[r])
            /\ (~wasStopped[r] /\ status[r] # "exit_ok" /\ errors[r] = << >>)
                  => /\ ~result'[r].success
                     /\ result'[r].error \in
                          {"FFmpeg exited with code: Some(1)",
                           "FFmpeg exited with code: None"}]_vars

\* C7 witness: one run was given the "stopped" result and another, not
\* stopped, failed with two diagnostic lines, joined in arrival order
C7_Witness ==
    \E r, q \in Runners :
        /\ pc[r] = "done" /\ IsStopped(result[r])
        /\ pc[q] = "done" /\ ~result[q].success
        /\ result[q].error = "Error: open\nInvalid data"

\* C8: when a run has produced its result and terminal event, both reader
\* threads have returned and been joined (only a reader that has not
\* returned emits snapshots), and the diagnostic lines the classification
\* used are those the stderr reader returned.
C8_ReadersJoinedBeforeResult ==
    \A r \in Runners :
        result[r] # NoResult => out[r] = "done" /\ err[r] = "done"

\* C8 witness: a failed run was classified from a diagnostic line that its
\* joined stderr reader returned
C8_Witness ==
    \E r \in Runners :
        /\ pc[r] = "done"
        /\ err[r] = "done" /\ out[r] = "done"
        /\ result[r].error = JoinLines(DiagLines(MaxDiag))

\* the runner of slot r is past `stdout_handle.join()` / past both joins
StdoutJoined(r) == pc[r] \in {"join_stderr", "remove", "classify", "done"}
BothJoined(r) == pc[r] \in {"remove", "classify", "done"}

\* C9 (as stated): the stop flag is consumed only after both readers have
\* been joined: a run that has called take_stopped is past both joins.
C9_TakeAfterJoin ==
    \A r \in Runners :
        pc[r] \in {"join", "join_stderr", "remove", "classify", "done"}
            => BothJoined(r)

\* C9 (amended): the order is wait for exit, take_stopped, join both
\* readers, classify: the flag is consumed only after child.wait() has
\* returned the exit status, a join returns only after the flag has been
\* consumed and its reader has ended, stdout before stderr, and the result
\* is produced only after both joins.
C9_WaitTakeJoinClassify ==
    /\ [](\A r \in Runners :
            /\ pc[r] \in {"join", "join_stderr", "remove", "classify"}
                  => status[r] # None
            /\ StdoutJoined(r) => out[r] = "done"
            /\ BothJoined(r) => err[r] = "done"
            /\ result[r] # NoResult => out[r] = "done" /\ err[r] = "done")
    /\ [][\A r \in Runners :
            /\ (job[r] \in stopped /\ job[r] \notin stopped'
                    /\ pc'[r] # pc[r] /\ pc[r] # "remove")
                  => pc[r] = "take" /\ status[r] # None /\ pc'[r] = "join"
            /\ (wasStopped'[r] /\ ~wasStopped[r])
                  => pc[r] = "take" /\ status[r] # None /\ pc'[r] = "join"]_vars

\* C9 witness: the flag has been consumed (and was set) while both readers
\* are still running and to be joined
C9_Witness ==
    \E r \in Runners :
        /\ pc[r] = "join"
        /\ wasStopped[r]
        /\ status[r] = "killed"
        /\ out[r] = "running" /\ err[r] = "running"

\* C10 (as stated): each run goes through Registered, Running, Exited,
\* Classified, Cleaned in that order: the registry entry is removed as the
\* last step, after the outcome has been classified, so a run whose cleanup
\* has run has its result.
C10_CleanedAfterClassified ==
    \A r \in Runners : removes[r] > 0 => result[r] # NoResult

\* C11 (as stated): the registry mutex is held only for pure map operations:
\* no thread holds it while it spawns a process, waits for the exit of a
\* process or joins a reader.  (The locked blocks of the canceller end before
\* its kills, and the readers never take the mutex.)
C11_LockOnlyForMapOperations ==
    \A r \in Runners : lock = r => pc[r] \notin {"spawning", "wait", "join"}

\* the steps a launcher takes while it holds the mutex: none of them blocks
LockHolderStep == \E r \in Runners : SpawnOk(r) \/ SpawnFail(r) \/ Register(r)

\* the steps of stop_ffmpeg_render / stop_all_renders after their locked block
CancellerStep ==
    \/ \E ok \in BOOLEAN : StopKill(ok)
    \/ StopEmit
    \/ \E pair \in skill, ok \in BOOLEAN : StopAllKill(pair, ok)
    \/ StopAllEmit
    \/ StopAllReturn

\* C12: cancellation cannot deadlock.  No thread holds the mutex while it
\* waits for a process, waits for the mutex or joins the readers, and the
\* readers run without it; whoever holds the mutex can take its next step,
\* so when every running call of run_ffmpeg_render is blocked in
\* child.wait() the mutex is free and a stop and a stop-all get it at once
\* (poisoned, they return its error); a stop or stop-all past its locked
\* block can always take its next step, up to its return.
C12_CancellationDeadlockFree ==
    /\ \A r \in Runners :
          /\ pc[r] \in {"wait", "take", "join", "join_stderr", "remove"}
                => lock # r
          /\ (out[r] = "running" \/ err[r] = "running") => lock # r
    /\ lock # NoHolder => ENABLED LockHolderStep
    /\ ((\A r \in Runners : Free(r) \/ pc[r] = "wait")
          /\ CancellerFree /\ nstops < MaxStops)
          => /\ lock = NoHolder
             /\ \A j \in JobIds : ENABLED (StopMark(j, TRUE) \/ StopLockErr(j))
             /\ ENABLED (StopAllMark(Cardinality(JobIds)) \/ StopAllLockErr)
    /\ spc \in {"kill", "emit", "killall", "emitall"} => ENABLED CancellerStep

\* C12 witness: a stop-all has marked two jobs whose runners are both blocked
\* in child.wait() with their processes still running
C12_Witness ==
    /\ spc = "killall"
    /\ Cardinality(skill) = 2
    /\ \A r \in Runners : pc[r] = "wait" /\ proc[r] = "running"

\* the step is the locked block of stop_ffmpeg_render(j)
IsStopCall(j) == nstops' = nstops + 1 /\ sjob' = j

\* C13 (as stated): stop_ffmpeg_render on a job that has a ProcessRecord reads the pid of
\* that record, issues the kill for that pid, and then, whether or not the
\* kill took effect, emits one "render-stopped" event for the job and
\* returns true.
C13_StopKillsNotifiesReturnsTrue ==
    /\ [][\A j \in JobIds :
            (IsStopCall(j) /\ has_process(processes, j))
                => /\ spc' = "kill"
                   /\ spid' = get_pid(processes, j)
                   /\ spid' # NoPid
                   /\ notified'[j] = 0]_vars
    /\ [][spc = "kill"
            => \/ UNCHANGED <<spc, spid, sjob, notified, sret>>
               \/ /\ spc' = "emit"
                  /\ UNCHANGED <<spid, sjob, notified, sret>>
                  /\ \E ok \in BOOLEAN : proc' = KillPid(spid, ok)]_vars
    /\ [][spc = "emit"
            => \/ UNCHANGED <<spc, spid, sjob, notified, sret>>
               \/ /\ spc' = "returned"
                  /\ sret' = "true"
                  /\ notified' = [notified EXCEPT ![sjob] = 1]
                  /\ UNCHANGED <<spid, sjob>>]_vars

\* C14 (as stated): stop_ffmpeg_render for an identifier without a ProcessRecord returns
\* false and leaves the records and the StopSet as they were; it issues no
\* kill (no process changes) and emits no "render-stopped" event.
C14_StopUnknownReturnsFalse ==
    /\ [][\A j \in JobIds :
            (IsStopCall(j) /\ ~has_process(processes, j))
                => /\ spc' = "returned"
                   /\ sret' = "false"
                   /\ UNCHANGED <<processes, stopped, proc>>
                   /\ \A k \in JobIds : notified'[k] = 0]_vars
    /\ []((spc = "returned" /\ sret = "false")
            => /\ \A k \in JobIds : notified[k] = 0
               /\ spid = NoPid)

\* C15: consuming the stop flag is one-shot.  In every reachable registry, a
\* take_stopped right after another one for the same job returns false, and
\* on a registered job two accepted stops followed by take_stopped give true
\* once and then false.  In the runner, take_stopped returns whether the flag
\* was set and leaves it cleared, and a cleared flag is set again only by a
\* stop accepted for a job that has a record.
C15_TakeStoppedOneShot ==
    /\ [](\A j \in JobIds :
            LET t1 == take_stopped(stopped, j)
                t2 == take_stopped(t1.stopped, j)
                s1 == stop_render(processes, stopped, j, TRUE)
                s2 == stop_render(processes, s1.stopped, j, TRUE)
                u1 == take_stopped(s2.stopped, j)
                u2 == take_stopped(u1.stopped, j)
            IN /\ t1.was = (j \in stopped)
               /\ ~t2.was
               /\ has_process(processes, j)
                    => s1.marked /\ s2.marked /\ u1.was /\ ~u2.was)
    /\ [][\A r \in Runners :
            (pc[r] = "take" /\ pc'[r] = "join")
                => /\ wasStopped'[r] = (job[r] \in stopped)
                   /\ job[r] \notin stopped']_vars
    /\ [][\A j \in JobIds :
            (j \notin stopped /\ j \in stopped')
                => nstops' = nstops + 1 /\ has_process(processes, j)]_vars

\* C15 witness: of two runs with the same identifier, stopped twice, the
\* first take_stopped returned true and the next one false
C15_Witness ==
    \E r, q \in Runners :
        /\ r # q /\ job[r] = job[q]
        /\ pc[r] = "join" /\ wasStopped[r]
        /\ pc[q] = "join" /\ ~wasStopped[q]
        /\ nstops = 2
        /\ spc = "returned" /\ sret = "true" /\ sjob = job[r]
        /\ job[r] \notin stopped

\* the step is the locked block of the stop_all_renders command
IsStopAllCall == nstops' = nstops + 1 /\ sjob' = NoJob

\* C16 (as stated): stop_all_renders snapshots the (job id, pid) pairs of the records,
\* marks exactly the jobs of the snapshot as stopped in the same locked
\* block, and then, for each pair of the snapshot and for no other, issues
\* the kill for its pid and emits one "render-stopped" event for its job; it
\* returns only when no pair is left.
C16_StopAllMarksKillsNotifiesSnapshot ==
    /\ [][IsStopAllCall
            => /\ spc' = "killall"
               /\ skill' = active_pids(processes)
               /\ stopped' = stopped \cup active_jobs(processes)
               /\ processes' = processes
               /\ \A k \in JobIds : notified'[k] = 0]_vars
    /\ [][spc = "killall"
            => \/ UNCHANGED <<spc, skill, notified, sret>>
               \/ \E pair \in skill :
                     /\ spc' = "emitall"
                     /\ skill' = skill \ {pair}
                     /\ sjob' = pair[1]
                     /\ notified' = notified
                     /\ \E ok \in BOOLEAN : proc' = KillPid(pair[2], ok)
               \/ /\ skill = {}
                  /\ spc' = "returned"
                  /\ sret' = "unit"
                  /\ UNCHANGED <<notified, proc>>]_vars
    /\ [][spc = "emitall"
            => \/ UNCHANGED <<spc, skill, sjob, notified, sret>>
               \/ /\ spc' = "killall"
                  /\ skill' = skill
                  /\ notified' = [notified EXCEPT ![sjob] = 1]]_vars
    /\ [](spc \in {"killall", "emitall"}
            => \A j \in JobIds :
                  notified[j] + Cardinality({p \in skill : p[1] = j})
                      + (IF spc = "emitall" /\ sjob = j THEN 1 ELSE 0) <= 1)

\* C17 (as stated): after a stop-all whose snapshot held the two active jobs
\* (distinct identifiers), with no other stop and no later launch, once both
\* runs have waited for their process and returned a result, the registry
\* holds no record and no stop flag, and both results are "stopped".
C17_StopAllLeavesNothingActive ==
    ( /\ spc = "returned" /\ sret = "unit" /\ nstops = 1
      /\ \A j \in JobIds : notified[j] = 1 /\ launches[j] = 1
      /\ \A r \in Runners : pc[r] = "done" )
        => /\ active_jobs(processes) = {}
           /\ stopped = {}
           /\ \A r \in Runners : IsStopped(result[r])

\* C18: when cmd.spawn() fails, run_ffmpeg_render returns the error at once,
\* without a result, and the registry is as it was when the call took the
\* mutex: the call holds the mutex from then to the failure, no step in
\* between changes the records or the StopSet, and the failing step itself
\* creates no record and leaves the StopSet alone.
C18_SpawnFailureLeavesRegistry ==
    /\ [](\A r \in Runners : pc[r] = "spawning" => lock = r)
    /\ [][(\E r \in Runners : pc'[r] = "spawning")
            => UNCHANGED <<processes, stopped>>]_vars
    /\ [][\A r \in Runners :
            (pc[r] = "spawning" /\ pc'[r] # "spawning" /\ proc'[r] # "running")
                => /\ pc'[r] = "spawn_failed"
                   /\ UNCHANGED <<processes, stopped>>
                   /\ result'[r] = NoResult
                   /\ lock' = NoHolder]_vars

\* C18 witness: a launch has failed at the spawn while another job is
\* registered and marked as stopped; the failed job has no record
C18_Witness ==
    \E r \in Runners :
        /\ pc[r] = "spawn_failed"
        /\ ~has_process(processes, job[r])
        /\ active_count(processes) = 1
        /\ stopped = active_jobs(processes)

\* C19: when a job identifier that already has a ProcessRecord is registered
\* again (no remove_process in between), the registry afterwards holds one
\* record for it, with the pid of the second registration: the identifiers
\* listed by active_jobs() and their number are as before, and the records
\* of the other jobs are untouched.
C19_DoubleRegisterOverwrites ==
    [][\A r \in Runners :
        (pc[r] = "registering" /\ pc'[r] = "registered"
            /\ has_process(processes, job[r]))
            => /\ get_pid(processes', job[r]) = pid[r]
               /\ processes'[job[r]] = RenderProcess(job[r], pid[r])
               /\ active_jobs(processes') = active_jobs(processes)
               /\ active_count(processes') = active_count(processes)
               /\ active_pids(processes') =
                    (active_pids(processes)
                        \ {<<job[r], get_pid(processes, job[r])>>})
                    \cup {<<job[r], pid[r]>>}]_vars

\* C19 witness: two runs with the same identifier are both past their
\* registration; the one record of the identifier has the second pid
C19_Witness ==
    \E r, q \in Runners :
        /\ r # q /\ job[r] = job[q]
        /\ pc[r] = "wait" /\ pc[q] = "registered"
        /\ pid[r] < pid[q]
        /\ active_count(processes) = 1
        /\ get_pid(processes, job[r]) = pid[q]

\* C20 (as stated): stop_render(job_id) returns true and adds job_id to the
\* StopSet exactly when a ProcessRecord exists for job_id; otherwise it
\* returns false and the StopSet is as before.  The records are unchanged in
\* both cases.  Stated on the function over every reachable registry,
\* whether or not its print can be written, and on the locked block of
\* stop_ffmpeg_render that calls it.
C20_MarkStoppedIffRecord ==
    /\ [](\A j \in JobIds, ok \in BOOLEAN :
            LET m == stop_render(processes, stopped, j, ok)
            IN /\ ~m.panicked
               /\ m.marked = has_process(processes, j)
               /\ m.stopped = IF has_process(processes, j)
                              THEN stopped \cup {j} ELSE stopped)
    /\ [][\A j \in JobIds :
            IsStopCall(j)
                => /\ processes' = processes
                   /\ (sret' # "false") = has_process(processes, j)
                   /\ stopped' = IF has_process(processes, j)
                                 THEN stopped \cup {j} ELSE stopped]_vars

\* C21 (as stated): remove_process(job_id) removes the ProcessRecord and the
\* StopSet membership of job_id and touches no other identifier, and it is
\* idempotent: on an absent identifier it changes nothing, and applied twice
\* it gives the registry that one application gives.  Stated over every
\* reachable registry, whether or not the print can be written; and a run
\* with an identifier of its own that has passed its cleanup block has
\* neither a record nor a flag.
C21_UnregisterIdempotent ==
    /\ \A j \in JobIds, ok \in BOOLEAN :
          LET m1 == remove_process(processes, stopped, j, ok)
              m2 == remove_process(m1.processes, m1.stopped, j, ok)
          IN /\ ~m1.panicked
             /\ ~has_process(m1.processes, j)
             /\ j \notin m1.stopped
             /\ \A k \in JobIds \ {j} :
                   /\ has_process(m1.processes, k) = has_process(processes, k)
                   /\ get_pid(m1.processes, k) = get_pid(processes, k)
                   /\ (k \in m1.stopped) = (k \in stopped)
             /\ m2 = m1
             /\ (~has_process(processes, j) /\ j \notin stopped)
                   => /\ m1.processes = processes
                      /\ m1.stopped = stopped
    /\ \A r \in Runners :
          (pc[r] \in {"classify", "done"} /\ Alone(r))
              => ~has_process(processes, job[r]) /\ job[r] \notin stopped

\* C30: a new ProcessManager has no record and no flag, so active_count() is
\* 0 and active_jobs() is empty; in every reachable state active_count() is
\* the number of identifiers of active_jobs() and of pairs of active_pids(),
\* one pair per identifier, and these are the identifiers registered and not
\* yet unregistered: a run with an identifier of its own has its record from
\* its registration up to its cleanup block (for good when child.wait()
\* failed or a later lock() found the mutex poisoned), and has none before
\* and after.
C30_ActiveCountCountsRegistered ==
    /\ active_count(NewProcesses) = 0
    /\ active_jobs(NewProcesses) = {}
    /\ active_pids(NewProcesses) = {}
    /\ NewStopped = {}
    /\ active_count(processes) = Cardinality(active_jobs(processes))
    /\ active_count(processes) = Cardinality(active_pids(processes))
    /\ {p[1] : p \in active_pids(processes)} = active_jobs(processes)
    /\ \A j \in active_jobs(processes) : launches[j] >= 1
    /\ \A r \in Runners :
          (pc[r] # "idle" /\ Alone(r)) =>
             /\ pc[r] \in {"registered", "wait", "take", "join", "join_stderr",
                           "remove", "wait_failed"}
                   => OwnRecord(r)
             /\ (pc[r] = "lock_failed" /\ pid[r] # NoPid) => OwnRecord(r)
             /\ pc[r] \in {"not_configured", "spawning", "registering",
                           "spawn_failed", "classify", "done", "panicked"}
                   => ~has_process(processes, job[r])
             /\ (pc[r] = "lock_failed" /\ pid[r] = NoPid)
                   => ~has_process(processes, job[r])

\* C30 witness: two jobs are registered and none is unregistered yet
C30_Witness ==
    /\ active_count(processes) = 2
    /\ \A r \in Runners : pc[r] = "wait" /\ OwnRecord(r)

(* ====================================================================== *)
(* One run seen from its pipes: spawn_render's command line and the two    *)
(* reader threads of run_ffmpeg_render.  A line is the sequence of its     *)
(* characters, so that prefixes, substrings and numbers are computed as    *)
(* the code computes them.  An f64 is the rational it denotes: the line    *)
(* sets below use plain decimal notation only.                              *)
(* ====================================================================== *)

(* ------------------------------ f64 values ----------------------------- *)
\* An f64 is a rational n/d in lowest terms with d > 0, or one of the three
\* values that are no numbers, written with d = 0: +inf (n = 1), -inf
\* (n = -1) and NaN (n = 0).  The rounding of the arithmetic and the sign of
\* zero are not represented.
Abs(x) == IF x < 0 THEN -x ELSE x
Sign(x) == IF x < 0 THEN -1 ELSE IF x > 0 THEN 1 ELSE 0

RECURSIVE GCD(_, _)
GCD(a, b) == IF b = 0 THEN a ELSE GCD(b, a % b)

PosInf == [n |-> 1, d |-> 0]
NegInf == [n |-> -1, d |-> 0]
NaN == [n |-> 0, d |-> 0]
IsNaN(a) == a.d = 0 /\ a.n = 0
IsInf(a) == a.d = 0 /\ a.n # 0

\* n/d in lowest terms with a positive denominator; x/0.0 is an infinity
\* with the sign of x, 0.0/0.0 is NaN
Rat(n, d) ==
    IF d = 0 THEN [n |-> Sign(n), d |-> 0]
    ELSE LET g == GCD(Abs(n), Abs(d))
         IN [n |-> (Sign(d) * n) \div g, d |-> Abs(d) \div g]
RatInt(k) == [n |-> k, d |-> 1]
RatNeg(a) == [n |-> -a.n, d |-> a.d]
RatAdd(a, b) ==
    IF IsNaN(a) \/ IsNaN(b) THEN NaN
    ELSE IF IsInf(a) /\ IsInf(b) THEN (IF a.n = b.n THEN a ELSE NaN)
    ELSE IF IsInf(a) THEN a
    ELSE IF IsInf(b) THEN b
    ELSE Rat(a.n * b.d + b.n * a.d, a.d * b.d)
RatSub(a, b) == RatAdd(a, RatNeg(b))
RatMul(a, b) ==
    IF a.d = 0 \/ b.d = 0
    THEN (IF a.n = 0 \/ b.n = 0 THEN NaN
          ELSE [n |-> Sign(a.n) * Sign(b.n), d |-> 0])
    ELSE Rat(a.n * b.n, a.d * b.d)
RatDiv(a, b) ==
    IF IsNaN(a) \/ IsNaN(b) THEN NaN
    ELSE IF IsInf(a)
         THEN (IF IsInf(b) THEN NaN
               ELSE [n |-> IF b.n < 0 THEN -a.n ELSE a.n, d |-> 0])
    ELSE IF IsInf(b) THEN RatInt(0)
    ELSE Rat(a.n * b.d, a.d * b.n)
\* a < b; every comparison with NaN is false
RatLT(a, b) ==
    /\ ~IsNaN(a) /\ ~IsNaN(b)
    /\ IF a.d = 0 \/ b.d = 0
       THEN \/ a = NegInf /\ b # NegInf
            \/ b = PosInf /\ a # PosInf
       ELSE a.n * b.d < b.n * a.d
RatLE(a, b) == ~IsNaN(a) /\ ~IsNaN(b) /\ (a = b \/ RatLT(a, b))
\* f64::min: the lesser value, and the other one when one of them is NaN
RatMin(a, b) ==
    IF IsNaN(a) THEN b
    ELSE IF IsNaN(b) THEN a
    ELSE IF RatLT(b, a) THEN b ELSE a

(* ------------------------- strings as characters ----------------------- *)
Digit == {"0", "1", "2", "3", "4", "5", "6", "7", "8", "9"}
DigitVal == ("0" :> 0) @@ ("1" :> 1) @@ ("2" :> 2) @@ ("3" :> 3) @@ ("4" :> 4)
            @@ ("5" :> 5) @@ ("6" :> 6) @@ ("7" :> 7) @@ ("8" :> 8) @@ ("9" :> 9)
IsDigit(c) == c \in Digit

\* A character of a line is a one-character string; a character outside
\* ASCII, and the vertical tab, is written by its code point ("U+0663").

\* the characters of Unicode's White_Space: the `\s` of the regexes
Whitespace == {
    " ", "\t", "\n", "\f", "\r",
    "U+000B", "U+0085", "U+00A0", "U+1680", "U+2000", "U+2001", "U+2002",
    "U+2003", "U+2004", "U+2005", "U+2006", "U+2007", "U+2008", "U+2009",
    "U+200A", "U+2028", "U+2029", "U+202F", "U+205F", "U+3000"
}

\* the decimal digits (General_Category Nd) outside ASCII: the `\d` of the
\* regexes matches them, and no number parser accepts them
OtherDecimalDigits == {
    "U+0660", "U+0661", "U+0662", "U+0663", "U+0664", "U+0665", "U+0666",
    "U+0667", "U+0668", "U+0669", "U+06F0", "U+06F1", "U+06F2", "U+06F3",
    "U+06F4", "U+06F5", "U+06F6", "U+06F7", "U+06F8", "U+06F9", "U+07C0",
    "U+07C1", "U+07C2", "U+07C3", "U+07C4", "U+07C5", "U+07C6", "U+07C7",
    "U+07C8", "U+07C9", "U+0966", "U+0967", "U+0968", "U+0969", "U+096A",
    "U+096B", "U+096C", "U+096D", "U+096E", "U+096F", "U+09E6", "U+09E7",
    "U+09E8", "U+09E9", "U+09EA", "U+09EB", "U+09EC", "U+09ED", "U+09EE",
    "U+09EF", "U+0A66", "U+0A67", "U+0A68", "U+0A69", "U+0A6A", "U+0A6B",
    "U+0A6C", "U+0A6D", "U+0A6E", "U+0A6F", "U+0AE6", "U+0AE7", "U+0AE8",
    "U+0AE9", "U+0AEA", "U+0AEB", "U+0AEC", "U+0AED", "U+0AEE", "U+0AEF",
    "U+0B66", "U+0B67", "U+0B68", "U+0B69", "U+0B6A", "U+0B6B", "U+0B6C",
    "U+0B6D", "U+0B6E", "U+0B6F", "U+0BE6", "U+0BE7", "U+0BE8", "U+0BE9",
    "U+0BEA", "U+0BEB", "U+0BEC", "U+0BED", "U+0BEE", "U+0BEF", "U+0C66",
    "U+0C67", "U+0C68", "U+0C69", "U+0C6A", "U+0C6B", "U+0C6C", "U+0C6D",
    "U+0C6E", "U+0C6F", "U+0CE6", "U+0CE7", "U+0CE8", "U+0CE9", "U+0CEA",
    "U+0CEB", "U+0CEC", "U+0CED", "U+0CEE", "U+0CEF", "U+0D66", "U+0D67",
    "U+0D68", "U+0D69", "U+0D6A", "U+0D6B", "U+0D6C", "U+0D6D", "U+0D6E",
    "U+0D6F", "U+0DE6", "U+0DE7", "U+0DE8", "U+0DE9", "U+0DEA", "U+0DEB",
    "U+0DEC", "U+0DED", "U+0DEE", "U+0DEF", "U+0E50", "U+0E51", "U+0E52",
    "U+0E53", "U+0E54", "U+0E55", "U+0E56", "U+0E57", "U+0E58", "U+0E59",
    "U+0ED0", "U+0ED1", "U+0ED2", "U+0ED3", "U+0ED4", "U+0ED5", "U+0ED6",
    "U+0ED7", "U+0ED8", "U+0ED9", "U+0F20", "U+0F21", "U+0F22", "U+0F23",
    "U+0F24", "U+0F25", "U+0F26", "U+0F27", "U+0F28", "U+0F29", "U+1040",
    "U+1041", "U+1042", "U+1043", "U+1044", "U+1045", "U+1046", "U+1047",
    "U+1048", "U+1049", "U+1090", "U+1091", "U+1092", "U+1093", "U+1094",
    "U+1095", "U+1096", "U+1097", "U+1098", "U+1099", "U+17E0", "U+17E1",
    "U+17E2", "U+17E3", "U+17E4", "U+17E5", "U+17E6", "U+17E7", "U+17E8",
    "U+17E9", "U+1810", "U+1811", "U+1812", "U+1813", "U+1814", "U+1815",
    "U+1816", "U+1817", "U+1818", "U+1819", "U+1946", "U+1947", "U+1948",
    "U+1949", "U+194A", "U+194B", "U+194C", "U+194D", "U+194E", "U+194F",
    "U+19D0", "U+19D1", "U+19D2", "U+19D3", "U+19D4", "U+19D5", "U+19D6",
    "U+19D7", "U+19D8", "U+19D9", "U+1A80", "U+1A81", "U+1A82", "U+1A83",
    "U+1A84", "U+1A85", "U+1A86", "U+1A87", "U+1A88", "U+1A89", "U+1A90",
    "U+1A91", "U+1A92", "U+1A93", "U+1A94", "U+1A95", "U+1A96", "U+1A97",
    "U+1A98", "U+1A99", "U+1B50", "U+1B51", "U+1B52", "U+1B53", "U+1B54",
    "U+1B55", "U+1B56", "U+1B57", "U+1B58", "U+1B59", "U+1BB0", "U+1BB1",
    "U+1BB2", "U+1BB3", "U+1BB4", "U+1BB5", "U+1BB6", "U+1BB7", "U+1BB8",
    "U+1BB9", "U+1C40", "U+1C41", "U+1C42", "U+1C43", "U+1C44", "U+1C45",
    "U+1C46", "U+1C47", "U+1C48", "U+1C49", "U+1C50", "U+1C51", "U+1C52",
    "U+1C53", "U+1C54", "U+1C55", "U+1C56", "U+1C57", "U+1C58", "U+1C59",
    "U+A620", "U+A621", "U+A622", "U+A623", "U+A624", "U+A625", "U+A626",
    "U+A627", "U+A628", "U+A629", "U+A8D0", "U+A8D1", "U+A8D2", "U+A8D3",
    "U+A8D4", "U+A8D5", "U+A8D6", "U+A8D7", "U+A8D8", "U+A8D9", "U+A900",
    "U+A901", "U+A902", "U+A903", "U+A904", "U+A905", "U+A906", "U+A907",
    "U+A908", "U+A909", "U+A9D0", "U+A9D1", "U+A9D2", "U+A9D3", "U+A9D4",
    "U+A9D5", "U+A9D6", "U+A9D7", "U+A9D8", "U+A9D9", "U+A9F0", "U+A9F1",
    "U+A9F2", "U+A9F3", "U+A9F4", "U+A9F5", "U+A9F6", "U+A9F7", "U+A9F8",
    "U+A9F9", "U+AA50", "U+AA51", "U+AA52", "U+AA53", "U+AA54", "U+AA55",
    "U+AA56", "U+AA57", "U+AA58", "U+AA59", "U+ABF0", "U+ABF1", "U+ABF2",
    "U+ABF3", "U+ABF4", "U+ABF5", "U+ABF6", "U+ABF7", "U+ABF8", "U+ABF9",
    "U+FF10", "U+FF11", "U+FF12", "U+FF13", "U+FF14", "U+FF15", "U+FF16",
    "U+FF17", "U+FF18", "U+FF19", "U+104A0", "U+104A1", "U+104A2", "U+104A3",
    "U+104A4", "U+104A5", "U+104A6", "U+104A7", "U+104A8", "U+104A9",
    "U+10D30", "U+10D31", "U+10D32", "U+10D33", "U+10D34", "U+10D35",
    "U+10D36", "U+10D37", "U+10D38", "U+10D39", "U+10D40", "U+10D41",
    "U+10D42", "U+10D43", "U+10D44", "U+10D45", "U+10D46", "U+10D47",
    "U+10D48", "U+10D49", "U+11066", "U+11067", "U+11068", "U+11069",
    "U+1106A", "U+1106B", "U+1106C", "U+1106D", "U+1106E", "U+1106F",
    "U+110F0", "U+110F1", "U+110F2", "U+110F3", "U+110F4", "U+110F5",
    "U+110F6", "U+110F7", "U+110F8", "U+110F9", "U+11136", "U+11137",
    "U+11138", "U+11139", "U+1113A", "U+1113B", "U+1113C", "U+1113D",
    "U+1113E", "U+1113F", "U+111D0", "U+111D1", "U+111D2", "U+111D3",
    "U+111D4", "U+111D5", "U+111D6", "U+111D7", "U+111D8", "U+111D9",
    "U+112F0", "U+112F1", "U+112F2", "U+112F3", "U+112F4", "U+112F5",
    "U+112F6", "U+112F7", "U+112F8", "U+112F9", "U+11450", "U+11451",
    "U+11452", "U+11453", "U+11454", "U+11455", "U+11456", "U+11457",
    "U+11458", "U+11459", "U+114D0", "U+114D1", "U+114D2", "U+114D3",
    "U+114D4", "U+114D5", "U+114D6", "U+114D7", "U+114D8", "U+114D9",
    "U+11650", "U+11651", "U+11652", "U+11653", "U+11654", "U+11655",
    "U+11656", "U+11657", "U+11658", "U+11659", "U+116C0", "U+116C1",
    "U+116C2", "U+116C3", "U+116C4", "U+116C5", "U+116C6", "U+116C7",
    "U+116C8", "U+116C9", "U+116D0", "U+116D1", "U+116D2", "U+116D3",
    "U+116D4", "U+116D5", "U+116D6", "U+116D7", "U+116D8", "U+116D9",
    "U+116DA", "U+116DB", "U+116DC", "U+116DD", "U+116DE", "U+116DF",
    "U+116E0", "U+116E1", "U+116E2", "U+116E3", "U+11730", "U+11731",
    "U+11732", "U+11733", "U+11734", "U+11735", "U+11736", "U+11737",
    "U+11738", "U+11739", "U+118E0", "U+118E1", "U+118E2", "U+118E3",
    "U+118E4", "U+118E5", "U+118E6", "U+118E7", "U+118E8", "U+118E9",
    "U+11950", "U+11951", "U+11952", "U+11953", "U+11954", "U+11955",
    "U+11956", "U+11957", "U+11958", "U+11959", "U+11BF0", "U+11BF1",
    "U+11BF2", "U+11BF3", "U+11BF4", "U+11BF5", "U+11BF6", "U+11BF7",
    "U+11BF8", "U+11BF9", "U+11C50", "U+11C51", "U+11C52", "U+11C53",
    "U+11C54", "U+11C55", "U+11C56", "U+11C57", "U+11C58", "U+11C59",
    "U+11D50", "U+11D51", "U+11D52", "U+11D53", "U+11D54", "U+11D55",
    "U+11D56", "U+11D57", "U+11D58", "U+11D59", "U+11DA0", "U+11DA1",
    "U+11DA2", "U+11DA3", "U+11DA4", "U+11DA5", "U+11DA6", "U+11DA7",
    "U+11DA8", "U+11DA9", "U+11F50", "U+11F51", "U+11F52", "U+11F53",
    "U+11F54", "U+11F55", "U+11F56", "U+11F57", "U+11F58", "U+11F59",
    "U+16130", "U+16131", "U+16132", "U+16133", "U+16134", "U+16135",
    "U+16136", "U+16137", "U+16138", "U+16139", "U+16A60", "U+16A61",
    "U+16A62", "U+16A63", "U+16A64", "U+16A65", "U+16A66", "U+16A67",
    "U+16A68", "U+16A69", "U+16AC0", "U+16AC1", "U+16AC2", "U+16AC3",
    "U+16AC4", "U+16AC5", "U+16AC6", "U+16AC7", "U+16AC8", "U+16AC9",
    "U+16B50", "U+16B51", "U+16B52", "U+16B53", "U+16B54", "U+16B55",
    "U+16B56", "U+16B57", "U+16B58", "U+16B59", "U+16D70", "U+16D71",
    "U+16D72", "U+16D73", "U+16D74", "U+16D75", "U+16D76", "U+16D77",
    "U+16D78", "U+16D79", "U+1CCF0", "U+1CCF1", "U+1CCF2", "U+1CCF3",
    "U+1CCF4", "U+1CCF5", "U+1CCF6", "U+1CCF7", "U+1CCF8", "U+1CCF9",
    "U+1D7CE", "U+1D7CF", "U+1D7D0", "U+1D7D1", "U+1D7D2", "U+1D7D3",
    "U+1D7D4", "U+1D7D5", "U+1D7D6", "U+1D7D7", "U+1D7D8", "U+1D7D9",
    "U+1D7DA", "U+1D7DB", "U+1D7DC", "U+1D7DD", "U+1D7DE", "U+1D7DF",
    "U+1D7E0", "U+1D7E1", "U+1D7E2", "U+1D7E3", "U+1D7E4", "U+1D7E5",
    "U+1D7E6", "U+1D7E7", "U+1D7E8", "U+1D7E9", "U+1D7EA", "U+1D7EB",
    "U+1D7EC", "U+1D7ED", "U+1D7EE", "U+1D7EF", "U+1D7F0", "U+1D7F1",
    "U+1D7F2", "U+1D7F3", "U+1D7F4", "U+1D7F5", "U+1D7F6", "U+1D7F7",
    "U+1D7F8", "U+1D7F9", "U+1D7FA", "U+1D7FB", "U+1D7FC", "U+1D7FD",
    "U+1D7FE", "U+1D7FF", "U+1E140", "U+1E141", "U+1E142", "U+1E143",
    "U+1E144", "U+1E145", "U+1E146", "U+1E147", "U+1E148", "U+1E149",
    "U+1E2F0", "U+1E2F1", "U+1E2F2", "U+1E2F3", "U+1E2F4", "U+1E2F5",
    "U+1E2F6", "U+1E2F7", "U+1E2F8", "U+1E2F9", "U+1E4F0", "U+1E4F1",
    "U+1E4F2", "U+1E4F3", "U+1E4F4", "U+1E4F5", "U+1E4F6", "U+1E4F7",
    "U+1E4F8", "U+1E4F9", "U+1E5F1", "U+1E5F2", "U+1E5F3", "U+1E5F4",
    "U+1E5F5", "U+1E5F6", "U+1E5F7", "U+1E5F8", "U+1E5F9", "U+1E5FA",
    "U+1E950", "U+1E951", "U+1E952", "U+1E953", "U+1E954", "U+1E955",
    "U+1E956", "U+1E957", "U+1E958", "U+1E959", "U+1FBF0", "U+1FBF1",
    "U+1FBF2", "U+1FBF3", "U+1FBF4", "U+1FBF5", "U+1FBF6", "U+1FBF7",
    "U+1FBF8", "U+1FBF9"
}
DecimalDigit == Digit \cup OtherDecimalDigits

\* str::starts_with
StartsWith(s, p) == Len(s) >= Len(p) /\ SubSeq(s, 1, Len(p)) = p
\* the pattern p occurs in s at index i
OccursAt(s, p, i) == i >= 1 /\ i + Len(p) - 1 <= Len(s) /\ SubSeq(s, i, i + Len(p) - 1) = p
\* str::contains
Contains(s, p) == \E i \in 1..(Len(s) + 1) : OccursAt(s, p, i)

\* str::trim_start_matches(p): every leading repetition of p is removed
RECURSIVE TrimStartMatches(_, _)
TrimStartMatches(s, p) ==
    IF p # << >> /\ StartsWith(s, p)
    THEN TrimStartMatches(SubSeq(s, Len(p) + 1, Len(s)), p)
    ELSE s

\* str::trim_end_matches(c) for a character c
RECURSIVE TrimEndMatches(_, _)
TrimEndMatches(s, c) ==
    IF s # << >> /\ s[Len(s)] = c
    THEN TrimEndMatches(SubSeq(s, 1, Len(s) - 1), c)
    ELSE s

\* the number written by a sequence of digits
RECURSIVE NatOf(_)
NatOf(ds) ==
    IF ds = << >> THEN 0
    ELSE NatOf(SubSeq(ds, 1, Len(ds) - 1)) * 10 + DigitVal[ds[Len(ds)]]

RECURSIVE Pow10(_)
Pow10(k) == IF k = 0 THEN 1 ELSE 10 * Pow10(k - 1)

SetMin(S) == CHOOSE x \in S : \A y \in S : x <= y

\* the lower-case letter of an upper-case letter
LowerOf == ("A" :> "a") @@ ("B" :> "b") @@ ("C" :> "c") @@ ("D" :> "d") @@
           ("E" :> "e") @@ ("F" :> "f") @@ ("G" :> "g") @@ ("H" :> "h") @@
           ("I" :> "i") @@ ("J" :> "j") @@ ("K" :> "k") @@ ("L" :> "l") @@
           ("M" :> "m") @@ ("N" :> "n") @@ ("O" :> "o") @@ ("P" :> "p") @@
           ("Q" :> "q") @@ ("R" :> "r") @@ ("S" :> "s") @@ ("T" :> "t") @@
           ("U" :> "u") @@ ("V" :> "v") @@ ("W" :> "w") @@ ("X" :> "x") @@
           ("Y" :> "y") @@ ("Z" :> "z")
ToLower(s) == [i \in 1..Len(s) |-> IF s[i] \in DOMAIN LowerOf THEN LowerOf[s[i]] ELSE s[i]]

\* an optional leading "+" (the integer parser accepts it)
StripPlus(s) == IF Len(s) > 1 /\ s[1] = "+" THEN Tail(s) ELSE s

\* a sequence of digits without its leading zeros
RECURSIVE StripZeros(_)
StripZeros(ds) == IF ds # << >> /\ ds[1] = "0" THEN StripZeros(Tail(ds)) ELSE ds

\* the i-th digit of the decimal fraction 0.ds
DigitAt(ds, i) == IF i <= Len(ds) THEN DigitVal[ds[i]] ELSE 0

\* the fractions 0.a and 0.b compared at the first of the places I where
\* their digits differ: -1, 0 or 1
FracCmpAt(a, b, I) ==
    IF I = {} THEN 0
    ELSE IF DigitAt(a, SetMin(I)) < DigitAt(b, SetMin(I)) THEN -1 ELSE 1
FracCmp(a, b) ==
    FracCmpAt(a, b, {i \in 1..(Len(a) + Len(b)) : DigitAt(a, i) # DigitAt(b, i)})

\* u64::MAX, 2^64 - 1
U64MaxDigits == <<
    "1", "8", "4", "4", "6", "7", "4", "4", "0", "7", "3", "7", "0", "9",
    "5", "5", "1", "6", "1", "5"
>>
\* the number written by the digits ds, without leading zeros, is a u64
FitsU64(ds) ==
    \/ Len(ds) < Len(U64MaxDigits)
    \/ Len(ds) = Len(U64MaxDigits) /\ FracCmp(ds, U64MaxDigits) <= 0

\* a parser that reads the digits of its argument and skips the rest
ParseU64_digits_of(s) ==
    IF \E i \in 1..Len(s) : s[i] \in Digit
    THEN [ok |-> TRUE, val |-> NatOf(SelectSeq(s, IsDigit))]
    ELSE [ok |-> FALSE, val |-> 0]
\* str::parse::<u64>: ASCII digits only, no blanks, at most u64::MAX
ParseU64(s) ==
    LET t == StripPlus(s)
    IN IF /\ t # << >>
          /\ \A i \in 1..Len(t) : t[i] \in Digit
          /\ FitsU64(StripZeros(t))
       THEN [ok |-> TRUE, val |-> NatOf(t)]
       ELSE [ok |-> FALSE, val |-> 0]

\* the digits of 2^1024 - 2^970, halfway between f64::MAX and 2^1024: a
\* decimal number of at least this size is read as an infinity
F64OverflowDigits == <<
    "1", "7", "9", "7", "6", "9", "3", "1", "3", "4", "8", "6", "2", "3",
    "1", "5", "8", "0", "7", "9", "3", "7", "2", "8", "9", "7", "1", "4",
    "0", "5", "3", "0", "3", "4", "1", "5", "0", "7", "9", "9", "3", "4",
    "1", "3", "2", "7", "1", "0", "0", "3", "7", "8", "2", "6", "9", "3",
    "6", "1", "7", "3", "7", "7", "8", "9", "8", "0", "4", "4", "4", "9",
    "6", "8", "2", "9", "2", "7", "6", "4", "7", "5", "0", "9", "4", "6",
    "6", "4", "9", "0", "1", "7", "9", "7", "7", "5", "8", "7", "2", "0",
    "7", "0", "9", "6", "3", "3", "0", "2", "8", "6", "4", "1", "6", "6",
    "9", "2", "8", "8", "7", "9", "1", "0", "9", "4", "6", "5", "5", "5",
    "5", "4", "7", "8", "5", "1", "9", "4", "0", "4", "0", "2", "6", "3",
    "0", "6", "5", "7", "4", "8", "8", "6", "7", "1", "5", "0", "5", "8",
    "2", "0", "6", "8", "1", "9", "0", "8", "9", "0", "2", "0", "0", "0",
    "7", "0", "8", "3", "8", "3", "6", "7", "6", "2", "7", "3", "8", "5",
    "4", "8", "4", "5", "8", "1", "7", "7", "1", "1", "5", "3", "1", "7",
    "6", "4", "4", "7", "5", "7", "3", "0", "2", "7", "0", "0", "6", "9",
    "8", "5", "5", "5", "7", "1", "3", "6", "6", "9", "5", "9", "6", "2",
    "2", "8", "4", "2", "9", "1", "4", "8", "1", "9", "8", "6", "0", "8",
    "3", "4", "9", "3", "6", "4", "7", "5", "2", "9", "2", "7", "1", "9",
    "0", "7", "4", "1", "6", "8", "4", "4", "4", "3", "6", "5", "5", "1",
    "0", "7", "0", "4", "3", "4", "2", "7", "1", "1", "5", "5", "9", "6",
    "9", "9", "5", "0", "8", "0", "9", "3", "0", "4", "2", "8", "8", "0",
    "1", "7", "7", "9", "0", "4", "1", "7", "4", "4", "9", "7", "7", "9", "2"
>>
\* the digits of 5^1075: 2^-1075, half of the least positive f64, is
\* 0.<these digits> * 10^-323; a decimal number of at most this size is read
\* as zero
F64UnderflowDigits == <<
    "2", "4", "7", "0", "3", "2", "8", "2", "2", "9", "2", "0", "6", "2",
    "3", "2", "7", "2", "0", "8", "8", "2", "8", "4", "3", "9", "6", "4",
    "3", "4", "1", "1", "0", "6", "8", "6", "1", "8", "2", "5", "2", "9",
    "9", "0", "1", "3", "0", "7", "1", "6", "2", "3", "8", "2", "2", "1",
    "2", "7", "9", "2", "8", "4", "1", "2", "5", "0", "3", "3", "7", "7",
    "5", "3", "6", "3", "5", "1", "0", "4", "3", "7", "5", "9", "3", "2",
    "6", "4", "9", "9", "1", "8", "1", "8", "0", "8", "1", "7", "9", "9",
    "6", "1", "8", "9", "8", "9", "8", "2", "8", "2", "3", "4", "7", "7",
    "2", "2", "8", "5", "8", "8", "6", "5", "4", "6", "3", "3", "2", "8",
    "3", "5", "5", "1", "7", "7", "9", "6", "9", "8", "9", "8", "1", "9",
    "9", "3", "8", "7", "3", "9", "8", "0", "0", "5", "3", "9", "0", "9",
    "3", "9", "0", "6", "3", "1", "5", "0", "3", "5", "6", "5", "9", "5",
    "1", "5", "5", "7", "0", "2", "2", "6", "3", "9", "2", "2", "9", "0",
    "8", "5", "8", "3", "9", "2", "4", "4", "9", "1", "0", "5", "1", "8",
    "4", "4", "3", "5", "9", "3", "1", "8", "0", "2", "8", "4", "9", "9",
    "3", "6", "5", "3", "6", "1", "5", "2", "5", "0", "0", "3", "1", "9",
    "3", "7", "0", "4", "5", "7", "6", "7", "8", "2", "4", "9", "2", "1",
    "9", "3", "6", "5", "6", "2", "3", "6", "6", "9", "8", "6", "3", "6",
    "5", "8", "4", "8", "0", "7", "5", "7", "0", "0", "1", "5", "8", "5",
    "7", "6", "9", "2", "6", "9", "9", "0", "3", "7", "0", "6", "3", "1",
    "1", "9", "2", "8", "2", "7", "9", "5", "5", "8", "5", "5", "1", "3",
    "3", "2", "9", "2", "7", "8", "3", "4", "3", "3", "8", "4", "0", "9",
    "3", "5", "1", "9", "7", "8", "0", "1", "5", "5", "3", "1", "2", "4",
    "6", "5", "9", "7", "2", "6", "3", "5", "7", "9", "5", "7", "4", "6",
    "2", "2", "7", "6", "6", "4", "6", "5", "2", "7", "2", "8", "2", "7",
    "2", "2", "0", "0", "5", "6", "3", "7", "4", "0", "0", "6", "4", "8",
    "5", "4", "9", "9", "9", "7", "7", "0", "9", "6", "5", "9", "9", "4",
    "7", "0", "4", "5", "4", "0", "2", "0", "8", "2", "8", "1", "6", "6",
    "2", "2", "6", "2", "3", "7", "8", "5", "7", "3", "9", "3", "4", "5",
    "0", "7", "3", "6", "3", "3", "9", "0", "0", "7", "9", "6", "7", "7",
    "6", "1", "9", "3", "0", "5", "7", "7", "5", "0", "6", "7", "4", "0",
    "1", "7", "6", "3", "2", "4", "6", "7", "3", "6", "0", "0", "9", "6",
    "8", "9", "5", "1", "3", "4", "0", "5", "3", "5", "5", "3", "7", "4",
    "5", "8", "5", "1", "6", "6", "6", "1", "1", "3", "4", "2", "2", "3",
    "7", "6", "6", "6", "7", "8", "6", "0", "4", "1", "6", "2", "1", "5",
    "9", "6", "8", "0", "4", "6", "1", "9", "1", "4", "4", "6", "7", "2",
    "9", "1", "8", "4", "0", "3", "0", "0", "5", "3", "0", "0", "5", "7",
    "5", "3", "0", "8", "4", "9", "0", "4", "8", "7", "6", "5", "3", "9",
    "1", "7", "1", "1", "3", "8", "6", "5", "9", "1", "6", "4", "6", "2",
    "3", "9", "5", "2", "4", "9", "1", "2", "6", "2", "3", "6", "5", "3",
    "8", "8", "1", "8", "7", "9", "6", "3", "6", "2", "3", "9", "3", "7",
    "3", "2", "8", "0", "4", "2", "3", "8", "9", "1", "0", "1", "8", "6",
    "7", "2", "3", "4", "8", "4", "9", "7", "6", "6", "8", "2", "3", "5",
    "0", "8", "9", "8", "6", "3", "3", "8", "8", "5", "8", "7", "9", "2",
    "5", "6", "2", "8", "3", "0", "2", "7", "5", "5", "9", "9", "5", "6",
    "5", "7", "5", "2", "4", "4", "5", "5", "5", "0", "7", "2", "5", "5",
    "1", "8", "9", "3", "1", "3", "6", "9", "0", "8", "3", "6", "2", "5",
    "4", "7", "7", "9", "1", "8", "6", "9", "4", "8", "6", "6", "7", "9",
    "9", "4", "9", "6", "8", "3", "2", "4", "0", "4", "9", "7", "0", "5",
    "8", "2", "1", "0", "2", "8", "5", "1", "3", "1", "8", "5", "4", "5",
    "1", "3", "9", "6", "2", "1", "3", "8", "3", "7", "7", "2", "2", "8",
    "2", "6", "1", "4", "5", "4", "3", "7", "6", "9", "3", "4", "1", "2",
    "5", "3", "2", "0", "9", "8", "5", "9", "1", "3", "2", "7", "6", "6",
    "7", "2", "3", "6", "3", "2", "8", "1", "2", "5"
>>

F64Err == [ok |-> FALSE, val |-> RatInt(0)]
F64Ok(v) == [ok |-> TRUE, val |-> v]

\* the f64 read from the decimal number D * 10^sh, D a sequence of digits
\* without leading zeros, which is 0.D * 10^p
F64Round(neg, D, sh, p) ==
    IF D = << >> THEN F64Ok(RatInt(0))
    ELSE IF p > 309 \/ (p = 309 /\ FracCmp(D, F64OverflowDigits) >= 0)
    THEN F64Ok(IF neg THEN NegInf ELSE PosInf)
    ELSE IF p < -323 \/ (p = -323 /\ FracCmp(D, F64UnderflowDigits) <= 0)
    THEN F64Ok(RatInt(0))
    ELSE IF sh >= 0
    THEN F64Ok(RatInt((IF neg THEN -NatOf(D) ELSE NatOf(D)) * Pow10(sh)))
    ELSE F64Ok(Rat(IF neg THEN -NatOf(D) ELSE NatOf(D), Pow10(-sh)))

\* the mantissa digits ds with k of them after the point, times 10^e
F64Scaled(neg, ds, k, e) ==
    F64Round(neg, StripZeros(ds), e - k, Len(StripZeros(ds)) - k + e)

\* core::num::dec2flt parse_scientific, its loop over the digits t of the
\* exponent: `if exponent < 0x10000 { exponent = 10 * exponent + digit }`.
\* A digit is added only while the exponent is below 65536, so an exponent
\* of 65536 or more is cut to its first five or six digits.
RECURSIVE parse_scientific(_, _)
parse_scientific(exponent, t) ==
    IF t = << >> THEN exponent
    ELSE parse_scientific(IF exponent < 65536
                          THEN 10 * exponent + DigitVal[Head(t)]
                          ELSE exponent,
                          Tail(t))

\* the exponent after "e": an optional sign and at least one digit
F64Exponent(x, t) ==
    IF t # << >> /\ \A i \in 1..Len(t) : t[i] \in Digit
    THEN [ok |-> TRUE, val |-> IF x[1] = "-" THEN -parse_scientific(0, t)
                               ELSE parse_scientific(0, t)]
    ELSE [ok |-> FALSE, val |-> 0]
ParseExponent(x) ==
    F64Exponent(x, IF x # << >> /\ x[1] \in {"+", "-"} THEN Tail(x) ELSE x)

\* digits with at most one point and at least one digit, then the exponent
F64Decimal(neg, mant, dots, ex) ==
    IF /\ ex.ok
       /\ \A i \in 1..Len(mant) : mant[i] \in Digit \cup {"."}
       /\ Cardinality(dots) <= 1
       /\ \E i \in 1..Len(mant) : mant[i] \in Digit
    THEN F64Scaled(neg, SelectSeq(mant, IsDigit),
                   IF dots = {} THEN 0 ELSE Len(mant) - SetMin(dots), ex.val)
    ELSE F64Err
F64Mantissa(neg, mant, ex) ==
    F64Decimal(neg, mant, {i \in 1..Len(mant) : mant[i] = "."}, ex)

\* the text after the sign: a word for a value that is no number, in any
\* case of its letters, or a decimal number, whose exponent begins at its
\* first "e" or "E" (E holds the places of these letters)
F64Unsigned(neg, t, E) ==
    IF ToLower(t) \in {<<"i", "n", "f">>,
                       <<"i", "n", "f", "i", "n", "i", "t", "y">>}
    THEN F64Ok(IF neg THEN NegInf ELSE PosInf)
    ELSE IF ToLower(t) = <<"n", "a", "n">> THEN F64Ok(NaN)
    ELSE IF E = {} THEN F64Mantissa(neg, t, [ok |-> TRUE, val |-> 0])
    ELSE F64Mantissa(neg, SubSeq(t, 1, SetMin(E) - 1),
                     ParseExponent(SubSeq(t, SetMin(E) + 1, Len(t))))
F64Signed(neg, t) == F64Unsigned(neg, t, {i \in 1..Len(t) : t[i] \in {"e", "E"}})

\* str::parse::<f64>: an optional sign, then "inf", "infinity" or "nan", or
\* decimal notation with an optional exponent; anything else ("N/A", blanks,
\* two points, digits outside ASCII) is an error
ParseF64(s) ==
    IF s = << >> THEN F64Err
    ELSE F64Signed(s[1] = "-", IF s[1] \in {"+", "-"} THEN Tail(s) ELSE s)

(* --------------------- the literals of the two readers ------------------- *)
K_frame == <<"f", "r", "a", "m", "e", "=">>
K_fps == <<"f", "p", "s", "=">>
K_size == <<"s", "i", "z", "e", "=">>
K_time == <<"t", "i", "m", "e", "=">>
K_bitrate == <<"b", "i", "t", "r", "a", "t", "e", "=">>
K_speed == <<"s", "p", "e", "e", "d", "=">>
K_total_size == <<"t", "o", "t", "a", "l", "_", "s", "i", "z", "e", "=">>
K_out_time_ms == <<"o", "u", "t", "_", "t", "i", "m", "e", "_", "m", "s", "=">>
K_progress == <<"p", "r", "o", "g", "r", "e", "s", "s", "=">>
K_Error == <<"E", "r", "r", "o", "r">>
K_error == <<"e", "r", "r", "o", "r">>
K_Invalid == <<"I", "n", "v", "a", "l", "i", "d">>

(* ------------------- the regexes of the fallback parser ------------------ *)
\* \d, [\d.] and \S
InClass(c, cls) ==
    CASE cls = "d" -> c \in DecimalDigit
      [] cls = "n" -> c \in DecimalDigit \cup {"."}
      [] cls = "S" -> c \notin Whitespace

\* the end of the greedy \s* that starts at i
RECURSIVE SkipWs(_, _)
SkipWs(s, i) == IF i <= Len(s) /\ s[i] \in Whitespace THEN SkipWs(s, i + 1) ELSE i

\* the end of the greedy run of class cls that starts at i
RECURSIVE RunEnd(_, _, _)
RunEnd(s, i, cls) ==
    IF i <= Len(s) /\ InClass(s[i], cls) THEN RunEnd(s, i + 1, cls) ELSE i

\* key \s* (cls+) suffix  tried at index i, where the \s* ends at j and the
\* run of the class at e; the group is the whole run: a shorter run would be
\* followed by a character of the class, not by the suffix
MatchRun(s, key, suffix, i, j, e) ==
    [ok   |-> OccursAt(s, key, i) /\ e > j
              /\ (suffix # << >> => OccursAt(s, suffix, e)),
     text |-> IF e > j THEN SubSeq(s, j, e - 1) ELSE << >>]
MatchFrom(s, key, cls, suffix, i, j) == MatchRun(s, key, suffix, i, j, RunEnd(s, j, cls))
MatchAt(s, key, cls, suffix, i) ==
    MatchFrom(s, key, cls, suffix, i, SkipWs(s, i + Len(key)))

\* the match at the least index of I, none if I is empty
FirstMatch(s, key, cls, suffix, I) ==
    IF I = {} THEN [ok |-> FALSE, text |-> << >>]
    ELSE MatchAt(s, key, cls, suffix, SetMin(I))

\* Regex::captures: the leftmost match
Captures(s, key, cls, suffix) ==
    FirstMatch(s, key, cls, suffix,
               {i \in 1..Len(s) : MatchAt(s, key, cls, suffix, i).ok})

frame_re(line)   == Captures(line, K_frame, "d", << >>)
fps_re(line)     == Captures(line, K_fps, "n", << >>)
size_re(line)    == Captures(line, K_size, "S", << >>)
bitrate_re(line) == Captures(line, K_bitrate, "S", << >>)
speed_re(line)   == Captures(line, K_speed, "n", <<"x">>)

\* time=(\d+):(\d+):(\d+\.?\d*) tried at index i: the three runs of digits
\* end at e1, e2 and e3, the optional fraction at e4
TimeRuns(s, i, e1, e2, e3, e4) ==
    [ok      |-> /\ OccursAt(s, K_time, i)
                 /\ e1 > i + Len(K_time) /\ e1 <= Len(s) /\ s[e1] = ":"
                 /\ e2 > e1 + 1 /\ e2 <= Len(s) /\ s[e2] = ":"
                 /\ e3 > e2 + 1,
     hours   |-> SubSeq(s, i + Len(K_time), e1 - 1),
     minutes |-> SubSeq(s, e1 + 1, e2 - 1),
     seconds |-> SubSeq(s, e2 + 1, e4 - 1)]
TimeFraction(s, i, e1, e2, e3) ==
    TimeRuns(s, i, e1, e2, e3,
             IF e3 <= Len(s) /\ s[e3] = "." THEN RunEnd(s, e3 + 1, "d") ELSE e3)
TimeSeconds(s, i, e1, e2) == TimeFraction(s, i, e1, e2, RunEnd(s, e2 + 1, "d"))
TimeMinutes(s, i, e1) == TimeSeconds(s, i, e1, RunEnd(s, e1 + 1, "d"))
TimeAt(s, i) == TimeMinutes(s, i, RunEnd(s, i + Len(K_time), "d"))

NoTime == [ok |-> FALSE, hours |-> << >>, minutes |-> << >>, seconds |-> << >>]
FirstTime(line, I) == IF I = {} THEN NoTime ELSE TimeAt(line, SetMin(I))
time_re(line) == FirstTime(line, {i \in 1..Len(line) : TimeAt(line, i).ok})

\* c.get(1)?.as_str().parse::<f64>().ok() ... unwrap_or(0.0); a failed
\* ParseF64 carries 0.0 as its value
F64OrZero(cap) == IF cap.ok THEN ParseF64(cap.text).val ELSE RatInt(0)

NoParse == [ok |-> FALSE, frame |-> 0, fps |-> RatInt(0), size |-> << >>,
            bitrate |-> << >>, time |-> RatInt(0), speed |-> RatInt(0)]

\* the tuple built from the parsed frame number and the parsed time fields
ParseNumbers(line, frok, frame, tmok, hours, minutes, seconds) ==
    IF ~frok \/ ~frame.ok THEN NoParse
    ELSE IF tmok /\ ~(hours.ok /\ minutes.ok /\ seconds.ok) THEN NoParse
    ELSE [ok      |-> TRUE,
          frame   |-> frame.val,
          fps     |-> F64OrZero(fps_re(line)),
          size    |-> size_re(line).text,
          bitrate |-> bitrate_re(line).text,
          time    |-> IF tmok
                      THEN RatAdd(RatAdd(RatMul(hours.val, RatInt(3600)),
                                         RatMul(minutes.val, RatInt(60))),
                                  seconds.val)
                      ELSE RatInt(0),
          speed   |-> F64OrZero(speed_re(line))]
ParseCaptures(line, fr, tm) ==
    ParseNumbers(line, fr.ok, ParseU64(fr.text), tm.ok,
                 ParseF64(tm.hours), ParseF64(tm.minutes), ParseF64(tm.seconds))

\* a parser that does not read the time field
parse_ffmpeg_progress_line_no_time(line) ==
    ParseCaptures(line, frame_re(line), NoTime)
\* parse_ffmpeg_progress_line: None without a frame number; the other
\* fields fall back to 0.0 or "" one by one; a line without a well-formed
\* time field has time 0.0
parse_ffmpeg_progress_line(line) ==
    ParseCaptures(line, frame_re(line), time_re(line))

(* --------------------------- spawn_render: argv -------------------------- *)
\* an argument vector with the user arguments after the progress options
BuildArgs_user_args_last(input_path, ffmpeg_args, output_path) ==
    <<"-y", "-i", input_path, "-progress", "pipe:1", "-stats_period", "0.5">>
        \o ffmpeg_args \o <<output_path>>
\* cmd.arg("-y").arg("-i").arg(input).args(ffmpeg_args).arg("-progress")
\*    .arg("pipe:1").arg("-stats_period").arg("0.5").arg(output)
BuildArgs(input_path, ffmpeg_args, output_path) ==
    <<"-y", "-i", input_path>> \o ffmpeg_args
        \o <<"-progress", "pipe:1", "-stats_period", "0.5", output_path>>

(* ----------------------------- RenderProgress ---------------------------- *)
\* progress_percent without the .min(100.0)
ProgressPercent_unclamped(time, duration) ==
    IF RatLT(RatInt(0), duration)
    THEN RatMul(RatDiv(time, duration), RatInt(100))
    ELSE RatInt(0)
\* progress_percent of the stdout reader
ProgressPercent(time, duration) ==
    IF RatLT(RatInt(0), duration)
    THEN RatMin(RatMul(RatDiv(time, duration), RatInt(100)), RatInt(100))
    ELSE RatInt(0)

\* eta_seconds that does not look at the duration
EtaSeconds_no_duration_guard(time, speed, duration) ==
    IF RatLT(RatInt(0), speed)
    THEN RatDiv(RatSub(duration, time), speed)
    ELSE RatInt(0)
\* eta_seconds of the stdout reader
EtaSeconds(time, speed, duration) ==
    IF RatLT(RatInt(0), speed) /\ RatLT(RatInt(0), duration)
    THEN RatDiv(RatSub(duration, time), speed)
    ELSE RatInt(0)

\* progress_percent of the stderr reader
StderrPercent(time, duration) ==
    IF RatLT(RatInt(0), duration)
    THEN RatMin(RatMul(RatDiv(time, duration), RatInt(100)), RatInt(100))
    ELSE RatInt(0)

\* an eta of the stderr reader that counts from the start of the run
StderrEta_from_start(time, speed, duration) ==
    IF RatLT(RatInt(0), speed) /\ RatLT(RatInt(0), duration)
    THEN RatDiv(duration, speed)
    ELSE RatInt(0)
\* eta_seconds of the stderr reader
StderrEta(time, speed, duration) ==
    IF RatLT(RatInt(0), speed) /\ RatLT(RatInt(0), duration)
    THEN RatDiv(RatSub(duration, time), speed)
    ELSE RatInt(0)

\* the RenderProgress payload of a "render-progress" event; chan names the
\* reader that emitted it
RenderProgress(chan, job_id, frame, fps, bitrate, total_size, time, speed, progress_percent, eta_seconds) ==
    [chan             |-> chan,
     job_id           |-> job_id,
     frame            |-> frame,
     fps              |-> fps,
     bitrate          |-> bitrate,
     total_size       |-> total_size,
     time_seconds     |-> time,
     speed            |-> speed,
     progress_percent |-> progress_percent,
     eta_seconds      |-> eta_seconds]

(* --------------------------- the stdout reader --------------------------- *)
\* out_time_ms read as milliseconds
OutTimeSeconds_millis(val) == RatDiv(val, RatInt(1000))
\* current_time = val / 1_000_000.0: the value is in microseconds
OutTimeSeconds(val) == RatDiv(val, RatInt(1000000))

\* one Ok(line) of the loop over reader.lines(): the locals afterwards and
\* the snapshot emitted, if any
StdoutStep(c, line, job_id, duration) ==
    IF StartsWith(line, K_frame) THEN
        LET v == ParseU64(TrimStartMatches(line, K_frame))
        IN [cur |-> IF v.ok THEN [c EXCEPT !.frame = v.val] ELSE c, snap |-> NoSnap]
    ELSE IF StartsWith(line, K_fps) THEN
        LET v == ParseF64(TrimStartMatches(line, K_fps))
        IN [cur |-> IF v.ok THEN [c EXCEPT !.fps = v.val] ELSE c, snap |-> NoSnap]
    ELSE IF StartsWith(line, K_bitrate) THEN
        [cur |-> [c EXCEPT !.bitrate = TrimStartMatches(line, K_bitrate)], snap |-> NoSnap]
    ELSE IF StartsWith(line, K_total_size) THEN
        [cur |-> [c EXCEPT !.size = TrimStartMatches(line, K_total_size)], snap |-> NoSnap]
    ELSE IF StartsWith(line, K_out_time_ms) THEN
        LET v == ParseF64(TrimStartMatches(line, K_out_time_ms))
        IN [cur |-> IF v.ok THEN [c EXCEPT !.time = OutTimeSeconds(v.val)] ELSE c,
            snap |-> NoSnap]
    ELSE IF StartsWith(line, K_speed) THEN
        LET v == ParseF64(TrimEndMatches(TrimStartMatches(line, K_speed), "x"))
        IN [cur |-> IF v.ok THEN [c EXCEPT !.speed = v.val] ELSE c, snap |-> NoSnap]
    ELSE IF StartsWith(line, K_progress) THEN
        [cur  |-> c,
         snap |-> RenderProgress("stdout", job_id, c.frame, c.fps, c.bitrate, c.size,
                                 c.time, c.speed,
                                 ProgressPercent(c.time, duration),
                                 EtaSeconds(c.time, c.speed, duration))]
    ELSE [cur |-> c, snap |-> NoSnap]

(* --------------------------- the stderr reader --------------------------- *)
\* the filter of the diagnostic list
IsErrorLine(line) ==
    Contains(line, K_Error) \/ Contains(line, K_error) \/ Contains(line, K_Invalid)

\* the errors vector after a line and the snapshot emitted for it, if any,
\* given the result p of parsing the line
StderrEmit(errs, line, job_id, duration, p) ==
    [errors |-> IF IsErrorLine(line) THEN Append(errs, line) ELSE errs,
     snap   |-> IF Contains(line, K_frame) /\ Contains(line, K_time) /\ p.ok
                THEN RenderProgress("stderr", job_id, p.frame, p.fps, p.bitrate,
                                    p.size, p.time, p.speed,
                                    StderrPercent(p.time, duration),
                                    StderrEta(p.time, p.speed, duration))
                ELSE NoSnap]

\* one Ok(line) of the loop
StderrStep(errs, line, job_id, duration) ==
    StderrEmit(errs, line, job_id, duration, parse_ffmpeg_progress_line(line))

(* ------------------------------ the inputs ------------------------------- *)
\* the most items (lines and failed reads) the two readers take together
MaxLines == 3

\* lines of -progress pipe:1
StdoutLines == {
    \* frame=150
    <<"f", "r", "a", "m", "e", "=", "1", "5", "0">>,
    \* frame=15x   (partially numeric: the frame number is kept)
    <<"f", "r", "a", "m", "e", "=", "1", "5", "x">>,
    \* fps=30.0
    <<"f", "p", "s", "=", "3", "0", ".", "0">>,
    \* bitrate=1677.7kbits/s
    <<"b", "i", "t", "r", "a", "t", "e", "=", "1", "6", "7", "7", ".", "7",
      "k", "b", "i", "t", "s", "/", "s">>,
    \* total_size=1048576
    <<"t", "o", "t", "a", "l", "_", "s", "i", "z", "e", "=", "1", "0", "4",
      "8", "5", "7", "6">>,
    \* out_time_ms=5000000
    <<"o", "u", "t", "_", "t", "i", "m", "e", "_", "m", "s", "=", "5", "0",
      "0", "0", "0", "0", "0">>,
    \* out_time_ms=-5000000
    <<"o", "u", "t", "_", "t", "i", "m", "e", "_", "m", "s", "=", "-", "5",
      "0", "0", "0", "0", "0", "0">>,
    \* out_time_ms=20000000
    <<"o", "u", "t", "_", "t", "i", "m", "e", "_", "m", "s", "=", "2", "0",
      "0", "0", "0", "0", "0", "0">>,
    \* out_time_ms=N/A   (not a number: the elapsed time is kept)
    <<"o", "u", "t", "_", "t", "i", "m", "e", "_", "m", "s", "=", "N", "/",
      "A">>,
    \* speed=2.5x
    <<"s", "p", "e", "e", "d", "=", "2", ".", "5", "x">>,
    \* speed=1e3x   (exponent notation: 1000.0)
    <<"s", "p", "e", "e", "d", "=", "1", "e", "3", "x">>,
    \* fps=1e655360   (an exponent past the cut at 65536: inf)
    <<"f", "p", "s", "=", "1", "e", "6", "5", "5", "3", "6", "0">>,
    \* speed=nan   (a speed that is no number: neither positive nor <= 0)
    <<"s", "p", "e", "e", "d", "=", "n", "a", "n">>,
    \* out_time_ms=nan   (a value that is no number)
    <<"o", "u", "t", "_", "t", "i", "m", "e", "_", "m", "s", "=", "n", "a",
      "n">>,
    \* frame=18446744073709551616   (2^64: no u64, the frame number is kept)
    <<"f", "r", "a", "m", "e", "=", "1", "8", "4", "4", "6", "7", "4", "4",
      "0", "7", "3", "7", "0", "9", "5", "5", "1", "6", "1", "6">>,
    \* progress=continue   (the sentinel)
    <<"p", "r", "o", "g", "r", "e", "s", "s", "=", "c", "o", "n", "t", "i",
      "n", "u", "e">>
}

\* lines of the log on stderr
StderrLines == {
    \* frame=  150 fps=30 q=28.0 size=    1024kB time=00:00:05.00 bitrate=1677.7kbits/s speed=2.5x
    <<"f", "r", "a", "m", "e", "=", " ", " ", "1", "5", "0", " ", "f", "p",
      "s", "=", "3", "0", " ", "q", "=", "2", "8", ".", "0", " ", "s", "i",
      "z", "e", "=", " ", " ", " ", " ", "1", "0", "2", "4", "k", "B", " ",
      "t", "i", "m", "e", "=", "0", "0", ":", "0", "0", ":", "0", "5", ".",
      "0", "0", " ", "b", "i", "t", "r", "a", "t", "e", "=", "1", "6", "7",
      "7", ".", "7", "k", "b", "i", "t", "s", "/", "s", " ", "s", "p", "e",
      "e", "d", "=", "2", ".", "5", "x">>,
    \* frame= 2400 fps=30 size=    4096kB time=00:01:20.50 speed=2.5x   (past a duration of 10 s)
    <<"f", "r", "a", "m", "e", "=", " ", "2", "4", "0", "0", " ", "f", "p",
      "s", "=", "3", "0", " ", "s", "i", "z", "e", "=", " ", " ", " ", " ",
      "4", "0", "9", "6", "k", "B", " ", "t", "i", "m", "e", "=", "0", "0",
      ":", "0", "1", ":", "2", "0", ".", "5", "0", " ", "s", "p", "e", "e",
      "d", "=", "2", ".", "5", "x">>,
    \* frame=    0 fps=0.0 size=N/A time=N/A bitrate=N/A speed=N/A   (no time field: 0.0)
    <<"f", "r", "a", "m", "e", "=", " ", " ", " ", " ", "0", " ", "f", "p",
      "s", "=", "0", ".", "0", " ", "s", "i", "z", "e", "=", "N", "/", "A",
      " ", "t", "i", "m", "e", "=", "N", "/", "A", " ", "b", "i", "t", "r",
      "a", "t", "e", "=", "N", "/", "A", " ", "s", "p", "e", "e", "d", "=",
      "N", "/", "A">>,
    \* frame=N/A time=00:00:01.00   (no frame number: no parse)
    <<"f", "r", "a", "m", "e", "=", "N", "/", "A", " ", "t", "i", "m", "e",
      "=", "0", "0", ":", "0", "0", ":", "0", "1", ".", "0", "0">>,
    \* frame=   12 fps=25 q=-1.0   (no time= in the line)
    <<"f", "r", "a", "m", "e", "=", " ", " ", " ", "1", "2", " ", "f", "p",
      "s", "=", "2", "5", " ", "q", "=", "-", "1", ".", "0">>,
    \* error at frame=7 time=01:00:02.00   (a status line and a diagnostic)
    <<"e", "r", "r", "o", "r", " ", "a", "t", " ", "f", "r", "a", "m", "e",
      "=", "7", " ", "t", "i", "m", "e", "=", "0", "1", ":", "0", "0", ":",
      "0", "2", ".", "0", "0">>,
    \* frame=<TAB>9 size=<TAB>1kB<TAB>time=00:00:02.00   (tabs for blanks)
    <<"f", "r", "a", "m", "e", "=", "\t", "9", " ", "s", "i", "z", "e",
      "=", "\t", "1", "k", "B", "\t", "t", "i", "m", "e", "=", "0", "0",
      ":", "0", "0", ":", "0", "2", ".", "0", "0">>,
    \* frame=<U+0663> time=00:00:01.00   (ARABIC-INDIC DIGIT THREE: no parse)
    <<"f", "r", "a", "m", "e", "=", "U+0663", " ", "t", "i", "m", "e", "=",
      "0", "0", ":", "0", "0", ":", "0", "1", ".", "0", "0">>,
    \* Error opening input
    <<"E", "r", "r", "o", "r", " ", "o", "p", "e", "n", "i", "n", "g", " ",
      "i", "n", "p", "u", "t">>,
    \* Invalid data found
    <<"I", "n", "v", "a", "l", "i", "d", " ", "d", "a", "t", "a", " ", "f",
      "o", "u", "n", "d">>,
    \* ERROR: upper
    <<"E", "R", "R", "O", "R", ":", " ", "u", "p", "p", "e", "r">>,
    \* invalid argument
    <<"i", "n", "v", "a", "l", "i", "d", " ", "a", "r", "g", "u", "m", "e",
      "n", "t">>,
    \* Press [q] to stop
    <<"P", "r", "e", "s", "s", " ", "[", "q", "]", " ", "t", "o", " ", "s",
      "t", "o", "p">>
}

\* parse_ffmpeg_progress_line on the lines of StderrLines, computed once
ParsedStderr == [line \in StderrLines |-> parse_ffmpeg_progress_line(line)]

\* the RenderJob of the run
RenderJobs == {
    [job_id |-> "a", input_path |-> "in.mp4", output_path |-> "out.mp4",
     ffmpeg_args |-> <<"-c:v", "libx264", "-crf", "23">>,
     duration_seconds |-> RatInt(10)],
    [job_id |-> "a", input_path |-> "in.mov", output_path |-> "out.mkv",
     ffmpeg_args |-> << >>,
     duration_seconds |-> RatInt(0)],
    [job_id |-> "b", input_path |-> "-progress", output_path |-> "-y",
     ffmpeg_args |-> <<"-an">>,
     duration_seconds |-> RatInt(-1)]
}

(* ------------------------------ the actions ------------------------------ *)
\* the slot of the one run of PipeSpec: the lowest one, which a first call
\* takes
PipeRunner == CHOOSE r \in Runners : \A q \in Runners : r <= q

\* the locked block of run_ffmpeg_render (main.rs 1065-1079): spawn_render
\* builds the command, spawns the tool and inserts its record
\* (process_manager.rs 80-118).  No other call runs, so the block is one step.
PipeSpawn ==
    /\ argv = << >>
    /\ pc[PipeRunner] = "idle"
    /\ argv' = BuildArgs(rjob.input_path, rjob.ffmpeg_args, rjob.output_path)
    /\ npid' = npid + 1
    /\ processes' = processes_insert(processes, rjob.job_id, npid + 1)
    /\ launches' = [launches EXCEPT ![rjob.job_id] = launches[rjob.job_id] + 1]
    /\ job' = [job EXCEPT ![PipeRunner] = rjob.job_id]
    /\ pid' = [pid EXCEPT ![PipeRunner] = npid + 1]
    /\ proc' = [proc EXCEPT ![PipeRunner] = "running"]
    /\ pc' = [pc EXCEPT ![PipeRunner] = "registered"]
    /\ UNCHANGED <<rjob, nread, cur, diag, snap, last, rd>>
    /\ UNCHANGED <<stopped, lock, out, err, errors, status, wasStopped,
                   removes, result>>
    /\ UNCHANGED <<sysvars, stopvars>>

\* std::thread::spawn of the stdout reader (main.rs 1094)
PipeStartStdout ==
    /\ pc[PipeRunner] = "registered"
    /\ rd["stdout"] = "none"
    /\ rd' = [rd EXCEPT !["stdout"] = "reading"]
    /\ out' = [out EXCEPT ![PipeRunner] = "running"]
    /\ UNCHANGED <<rjob, argv, nread, cur, diag, snap, last>>
    /\ UNCHANGED <<launches, npid, pc, job, pid, proc, err, errors, status,
                   wasStopped, removes, result>>
    /\ UNCHANGED <<regvars, sysvars, stopvars>>

\* std::thread::spawn of the stderr reader (main.rs 1161), after which the
\* runner waits for the exit of the tool
PipeStartStderr ==
    /\ pc[PipeRunner] = "registered"
    /\ rd["stdout"] # "none"
    /\ rd["stderr"] = "none"
    /\ rd' = [rd EXCEPT !["stderr"] = "reading"]
    /\ err' = [err EXCEPT ![PipeRunner] = "running"]
    /\ pc' = [pc EXCEPT ![PipeRunner] = "wait"]
    /\ UNCHANGED <<rjob, argv, nread, cur, diag, snap, last>>
    /\ UNCHANGED <<launches, npid, job, pid, proc, out, errors, status,
                   wasStopped, removes, result>>
    /\ UNCHANGED <<regvars, sysvars, stopvars>>

\* the stdout reader takes Ok(line)
StdoutLine(line) ==
    /\ rd["stdout"] = "reading"
    /\ nread < MaxLines
    /\ LET s == StdoutStep(cur, line, rjob.job_id, rjob.duration_seconds)
       IN /\ cur' = s.cur
          /\ snap' = s.snap
    /\ last' = [chan |-> "stdout", line |-> line, failed |-> FALSE]
    /\ nread' = nread + 1
    /\ UNCHANGED <<rjob, argv, diag, rd>>
    /\ UNCHANGED <<regvars, sysvars, runvars, stopvars>>

\* the stderr reader takes Ok(line)
StderrLine(line) ==
    /\ rd["stderr"] = "reading"
    /\ nread < MaxLines
    /\ LET s == StderrEmit(diag, line, rjob.job_id, rjob.duration_seconds,
                           ParsedStderr[line])
       IN /\ diag' = s.errors
          /\ snap' = s.snap
    /\ last' = [chan |-> "stderr", line |-> line, failed |-> FALSE]
    /\ nread' = nread + 1
    /\ UNCHANGED <<rjob, argv, cur, rd>>
    /\ UNCHANGED <<regvars, sysvars, runvars, stopvars>>

\* a reader takes Err(_): `if let Ok(line) = line` has no else branch, the
\* loop goes on to the next item
ReadErr(chan) ==
    /\ rd[chan] = "reading"
    /\ nread < MaxLines
    /\ last' = [chan |-> chan, line |-> << >>, failed |-> TRUE]
    /\ snap' = NoSnap
    /\ nread' = nread + 1
    /\ UNCHANGED <<rjob, argv, cur, diag, rd>>
    /\ UNCHANGED <<regvars, sysvars, runvars, stopvars>>

\* reader.lines() ends: the thread returns (the stderr thread returns errors)
ReadEof(chan) ==
    /\ rd[chan] = "reading"
    /\ rd' = [rd EXCEPT ![chan] = "closed"]
    /\ out' = IF chan = "stdout" THEN [out EXCEPT ![PipeRunner] = "done"]
              ELSE out
    /\ err' = IF chan = "stderr" THEN [err EXCEPT ![PipeRunner] = "done"]
              ELSE err
    /\ UNCHANGED <<rjob, argv, nread, cur, diag, snap, last>>
    /\ UNCHANGED <<launches, npid, pc, job, pid, proc, errors, status,
                   wasStopped, removes, result>>
    /\ UNCHANGED <<regvars, sysvars, stopvars>>

PipeInit ==
    /\ RegistryInit
    /\ rjob \in RenderJobs
    /\ argv = << >>
    /\ nread = 0
    /\ cur = NewCur
    /\ diag = << >>
    /\ snap = NoSnap
    /\ last = NoItem
    /\ rd = [c \in {"stdout", "stderr"} |-> "none"]

PipeNext ==
    \/ PipeSpawn
    \/ PipeStartStdout
    \/ PipeStartStderr
    \/ \E line \in StdoutLines : StdoutLine(line)
    \/ \E line \in StderrLines : StderrLine(line)
    \/ \E chan \in {"stdout", "stderr"} : ReadErr(chan)
    \/ \E chan \in {"stdout", "stderr"} : ReadEof(chan)

PipeSpec == PipeInit /\ [][PipeNext]_vars

(* ------------------------- claims on the two readers --------------------- *)
\* snap is the snapshot emitted by the latest step of a reader, if any
Emitted == snap.chan # "none"

\* C22: in every emitted snapshot, from either reader, progress_percent is
\* at most 100, also when the elapsed time is past the expected duration.
C22_PercentAtMost100 ==
    Emitted => RatLE(snap.progress_percent, RatInt(100))

\* C22 witness: a snapshot whose elapsed time is past a positive duration;
\* its percentage is 100
C22_Witness ==
    /\ Emitted
    /\ RatLT(RatInt(0), rjob.duration_seconds)
    /\ RatLT(rjob.duration_seconds, snap.time_seconds)
    /\ snap.progress_percent = RatInt(100)

\* C23: in every emitted snapshot the progress percentage lies between 0 and
\* 100 inclusive, for every elapsed time the reader accepts, negative
\* out_time_ms values included, and every duration.
C23_PercentBetween0And100 ==
    Emitted => /\ RatLE(RatInt(0), snap.progress_percent)
               /\ RatLE(snap.progress_percent, RatInt(100))

\* C24: eta_seconds of an emitted snapshot is 0 whenever speed <= 0 or
\* duration <= 0, and (duration - elapsed time) / speed when speed > 0 and
\* duration > 0, with the elapsed time and the speed that the snapshot
\* carries; a speed that is no number (NaN) is not positive, and the eta is 0.
C24_EtaZeroOrRemainingOverSpeed ==
    Emitted =>
        LET duration == rjob.duration_seconds
        IN /\ RatLE(snap.speed, RatInt(0)) \/ RatLE(duration, RatInt(0))
                => snap.eta_seconds = RatInt(0)
           /\ IF RatLT(RatInt(0), snap.speed) /\ RatLT(RatInt(0), duration)
              THEN snap.eta_seconds
                       = RatDiv(RatSub(duration, snap.time_seconds), snap.speed)
              ELSE snap.eta_seconds = RatInt(0)

\* C24 witness: duration 10 s, 5 s elapsed at speed 2.5: the eta is 2 s
C24_Witness ==
    /\ Emitted
    /\ rjob.duration_seconds = RatInt(10)
    /\ snap.time_seconds = RatInt(5)
    /\ snap.speed = Rat(5, 2)
    /\ snap.eta_seconds = RatInt(2)

\* C25: on stdout, out_time_ms is a number of microseconds: after a line
\* out_time_ms=<number> the elapsed time is the number / 1,000,000 seconds;
\* the snapshot emitted at the sentinel carries the elapsed time and has
\* progress_percent = min(100, elapsed / duration * 100) when duration > 0
\* and 0 otherwise; with duration 10 s, out_time_ms=5000000 gives 50.
C25_OutTimeMicroseconds ==
    /\ (last.chan = "stdout" /\ ~last.failed /\ StartsWith(last.line, K_out_time_ms))
          => LET v == ParseF64(TrimStartMatches(last.line, K_out_time_ms))
             IN v.ok => cur.time = Rat(v.val.n, v.val.d * 1000000)
    /\ snap.chan = "stdout"
          => LET duration == rjob.duration_seconds
                 pct == RatMul(RatDiv(cur.time, IF duration.n = 0 THEN RatInt(1) ELSE duration),
                               RatInt(100))
             IN /\ snap.time_seconds = cur.time
                /\ snap.progress_percent =
                      IF RatLT(RatInt(0), duration)
                      THEN (IF RatLE(pct, RatInt(100)) THEN pct ELSE RatInt(100))
                      ELSE RatInt(0)
                /\ (duration = RatInt(10) /\ cur.time = Rat(5000000, 1000000))
                      => snap.progress_percent = RatInt(50)

\* C25 witness: duration 10 s, the last elapsed-time report was 5 s and the
\* sentinel emitted 50 percent
C25_Witness ==
    /\ snap.chan = "stdout"
    /\ rjob.duration_seconds = RatInt(10)
    /\ cur.time = RatInt(5)
    /\ StartsWith(last.line, K_progress)
    /\ snap.progress_percent = RatInt(50)

\* the line contains "error" or "invalid", whatever the case of its letters
MentionsErrorAnyCase(line) ==
    \/ Contains(ToLower(line), K_error)
    \/ Contains(ToLower(line), <<"i", "n", "v", "a", "l", "i", "d">>)
\* the latest item was a line that the stderr reader took
StderrTook == last.chan = "stderr" /\ ~last.failed
\* the latest line of stderr was appended to the diagnostic list
LastCollected == diag # << >> /\ diag[Len(diag)] = last.line

\* C26: the stderr reader appends a line to the diagnostic list exactly when
\* the line contains "error" or "invalid" compared without regard to case
\* (so "ERROR", "invalid", "INVALID" lines are collected), and the list it
\* returns when the channel closes has the lines in arrival order.
C26_CollectsErrorLinesAnyCase ==
    StderrTook => (LastCollected <=> MentionsErrorAnyCase(last.line))

\* C27: a read error on either channel makes that reader stop: after a
\* failed read the reader of that channel has terminated.
C27_ReadErrorStopsReader ==
    last.failed => rd[last.chan] = "closed"

\* C28: for every input path, output path and user argument list, the
\* argument vector of the spawned tool is exactly -y, -i, input, the user
\* arguments verbatim and in their order, -progress, pipe:1, -stats_period,
\* 0.5, output.
C28_ArgvOrder ==
    argv # << >> =>
        LET n == Len(rjob.ffmpeg_args)
        IN /\ Len(argv) = n + 8
           /\ argv[1] = "-y"
           /\ argv[2] = "-i"
           /\ argv[3] = rjob.input_path
           /\ \A k \in 1..n : argv[3 + k] = rjob.ffmpeg_args[k]
           /\ argv[n + 4] = "-progress"
           /\ argv[n + 5] = "pipe:1"
           /\ argv[n + 6] = "-stats_period"
           /\ argv[n + 7] = "0.5"
           /\ argv[n + 8] = rjob.output_path

\* C28 witness: a spawned command with four user arguments between the
\* input and -progress
C28_Witness ==
    /\ argv # << >>
    /\ Len(rjob.ffmpeg_args) = 4
    /\ SubSeq(argv, 4, 7) = rjob.ffmpeg_args
    /\ argv[8] = "-progress"

\* frame=  150 fps=30 q=28.0 size=    1024kB time=00:00:05.00 bitrate=1677.7kbits/s speed=2.5x
ExampleStatusLine ==
    <<"f", "r", "a", "m", "e", "=", " ", " ", "1", "5", "0", " ", "f", "p",
      "s", "=", "3", "0", " ", "q", "=", "2", "8", ".", "0", " ", "s", "i",
      "z", "e", "=", " ", " ", " ", " ", "1", "0", "2", "4", "k", "B", " ",
      "t", "i", "m", "e", "=", "0", "0", ":", "0", "0", ":", "0", "5", ".",
      "0", "0", " ", "b", "i", "t", "r", "a", "t", "e", "=", "1", "6", "7",
      "7", ".", "7", "k", "b", "i", "t", "s", "/", "s", " ", "s", "p", "e",
      "e", "d", "=", "2", ".", "5", "x">>
\* frame= 2400 fps=30 size=    4096kB time=00:01:20.50 speed=2.5x
MinutesStatusLine ==
    <<"f", "r", "a", "m", "e", "=", " ", "2", "4", "0", "0", " ", "f", "p",
      "s", "=", "3", "0", " ", "s", "i", "z", "e", "=", " ", " ", " ", " ",
      "4", "0", "9", "6", "k", "B", " ", "t", "i", "m", "e", "=", "0", "0",
      ":", "0", "1", ":", "2", "0", ".", "5", "0", " ", "s", "p", "e", "e",
      "d", "=", "2", ".", "5", "x">>
\* error at frame=7 time=01:00:02.00
HoursStatusLine ==
    <<"e", "r", "r", "o", "r", " ", "a", "t", " ", "f", "r", "a", "m", "e",
      "=", "7", " ", "t", "i", "m", "e", "=", "0", "1", ":", "0", "0", ":",
      "0", "2", ".", "0", "0">>

\* C29: parsing a fallback status line yields the frame count, fps, size
\* token, bitrate token and speed found in the line and an elapsed time of
\* hours*3600 + minutes*60 + seconds of its time=HH:MM:SS.ss field; the
\* stderr reader emits a snapshot for a line only if the line contains both
\* frame= and time= and the parse succeeds, and the snapshot carries the
\* parsed values.
C29_FallbackLineParsing ==
    /\ (StderrTook /\ Emitted)
          => LET p == ParsedStderr[last.line]
             IN /\ Contains(last.line, K_frame)
                /\ Contains(last.line, K_time)
                /\ p.ok
                /\ snap.chan = "stderr"
                /\ snap.frame = p.frame
                /\ snap.fps = p.fps
                /\ snap.total_size = p.size
                /\ snap.bitrate = p.bitrate
                /\ snap.time_seconds = p.time
                /\ snap.speed = p.speed
    /\ (StderrTook /\ last.line = ExampleStatusLine)
          => /\ Emitted
             /\ snap.frame = 150
             /\ snap.fps = RatInt(30)
             /\ snap.total_size = <<"1", "0", "2", "4", "k", "B">>
             /\ snap.bitrate = <<"1", "6", "7", "7", ".", "7", "k", "b", "i", "t", "s", "/", "s">>
             /\ snap.time_seconds = RatInt(5)
             /\ snap.speed = Rat(25, 10)
    /\ (StderrTook /\ last.line = MinutesStatusLine)
          => /\ Emitted
             /\ snap.frame = 2400
             /\ snap.time_seconds = Rat(0 * 3600 * 100 + 1 * 60 * 100 + 2050, 100)
             /\ snap.bitrate = << >>
    /\ (StderrTook /\ last.line = HoursStatusLine)
          => /\ Emitted
             /\ snap.frame = 7
             /\ snap.time_seconds = RatInt(1 * 3600 + 0 * 60 + 2)
             /\ snap.speed = RatInt(0)

\* C29 witness: the stderr reader took the example line and emitted the
\* snapshot with frame 150 and 5 s elapsed
C29_Witness ==
    /\ StderrTook
    /\ last.line = ExampleStatusLine
    /\ Emitted
    /\ snap.frame = 150
    /\ snap.time_seconds = RatInt(5)

\* a step in which the stdout reader, or the stderr reader, takes a line
StdoutTakes == nread' = nread + 1 /\ last'.chan = "stdout" /\ ~last'.failed
StderrTakes == nread' = nread + 1 /\ last'.chan = "stderr" /\ ~last'.failed

\* the value that a key=value line of stdout gives for the key, parsed
FrameOf(line) == ParseU64(TrimStartMatches(line, K_frame))
FpsOf(line)   == ParseF64(TrimStartMatches(line, K_fps))
TimeOf(line)  == ParseF64(TrimStartMatches(line, K_out_time_ms))
SpeedOf(line) == ParseF64(TrimEndMatches(TrimStartMatches(line, K_speed), "x"))

\* C32: the stdout reader emits one snapshot for a sentinel (progress=)
\* line and none for any other line; the snapshot carries, for frame, fps,
\* elapsed time and speed, the most recent value that parsed: a line whose
\* value does not parse leaves the field as it was, and every field is 0
\* before the first accepted value.
C32_SentinelEmitsLastGoodValues ==
    /\ [](rd["stdout"] = "none" => cur = NewCur)
    /\ [][StdoutTakes =>
            LET line == last'.line
            IN /\ (snap'.chan # "none") <=> StartsWith(line, K_progress)
               /\ (snap'.chan # "none") =>
                     /\ snap'.chan = "stdout"
                     /\ snap'.frame = cur.frame
                     /\ snap'.fps = cur.fps
                     /\ snap'.time_seconds = cur.time
                     /\ snap'.speed = cur.speed
                     /\ cur' = cur
               /\ cur'.frame = IF StartsWith(line, K_frame) /\ FrameOf(line).ok
                               THEN FrameOf(line).val ELSE cur.frame
               /\ cur'.fps = IF StartsWith(line, K_fps) /\ FpsOf(line).ok
                             THEN FpsOf(line).val ELSE cur.fps
               /\ cur'.time = IF StartsWith(line, K_out_time_ms) /\ TimeOf(line).ok
                              THEN Rat(TimeOf(line).val.n, TimeOf(line).val.d * 1000000)
                              ELSE cur.time
               /\ cur'.speed = IF StartsWith(line, K_speed) /\ SpeedOf(line).ok
                               THEN SpeedOf(line).val ELSE cur.speed
               /\ line = <<"f", "r", "a", "m", "e", "=", "1", "5", "0">> => cur'.frame = 150
               /\ line = <<"f", "r", "a", "m", "e", "=", "1", "5", "x">> => cur'.frame = cur.frame
               /\ line = <<"o", "u", "t", "_", "t", "i", "m", "e", "_", "m", "s", "=", "N", "/", "A">> => cur'.time = cur.time
               /\ line = <<"s", "p", "e", "e", "d", "=", "2", ".", "5", "x">> => cur'.speed = Rat(5, 2)
         ]_vars

\* C32 witness: after frame=150 was accepted the reader took frame=15x and
\* still holds 150
C32_Witness ==
    /\ last.chan = "stdout"
    /\ last.line = <<"f", "r", "a", "m", "e", "=", "1", "5", "x">>
    /\ cur.frame = 150

\* C33: the two readers compute progress_percent and eta_seconds by the same
\* function: the percentage and eta of a snapshot of one reader are what the
\* other reader's formulas give for the same elapsed time, speed and
\* duration; and a line taken by one reader leaves the other reader's state
\* (the stdout reader's current values, the stderr reader's list) untouched.
C33_ReadersAgreeAndShareNothing ==
    [][/\ StdoutTakes =>
            /\ diag' = diag
            /\ (snap'.chan # "none") =>
                  /\ snap'.progress_percent
                        = StderrPercent(snap'.time_seconds, rjob.duration_seconds)
                  /\ snap'.eta_seconds
                        = StderrEta(snap'.time_seconds, snap'.speed, rjob.duration_seconds)
       /\ StderrTakes =>
            /\ cur' = cur
            /\ (snap'.chan # "none") =>
                  /\ snap'.progress_percent
                        = ProgressPercent(snap'.time_seconds, rjob.duration_seconds)
                  /\ snap'.eta_seconds
                        = EtaSeconds(snap'.time_seconds, snap'.speed, rjob.duration_seconds)
      ]_vars

\* C33 witness: the stdout reader holds 5 s at speed 2.5 and the stderr
\* reader emitted a snapshot for the same time and speed: 50 percent, 2 s
C33_Witness ==
    /\ snap.chan = "stderr"
    /\ cur.time = snap.time_seconds
    /\ cur.speed = snap.speed
    /\ snap.time_seconds = RatInt(5)
    /\ snap.progress_percent = RatInt(50)
    /\ snap.eta_seconds = RatInt(2)

\* C39: eta_seconds of every emitted snapshot is non-negative, also when the
\* elapsed time is past the expected duration.
C39_EtaNonNegative ==
    Emitted => RatLE(RatInt(0), snap.eta_seconds)

(* ------------------- claims on stop, exit and cleanup ------------------ *)
\* the exit that run r observed was caused by a kill of the Canceller
KilledByStop(r) == status[r] = "killed"

\* C31: the Canceller marks the job stopped before it issues the kill, so
\* whenever the exit that a runner observed was caused by a kill of
\* stop(job_id) or stop_all(), the runner's take_stopped has returned true
\* and the job is classified "stopped", never as a failure with an
\* exit-code message.
C31_KilledMeansStopped ==
    \A r \in Runners :
        /\ (pc[r] \in {"join", "join_stderr", "remove", "classify"}
               /\ KilledByStop(r))
              => wasStopped[r]
        /\ (pc[r] = "classify" /\ KilledByStop(r))
              => IsStopped(Classify(wasStopped[r], status[r], errors[r]))


\* the Canceller issues a kill for pid p in this step
KillIssued(p) ==
    \/ spc = "kill" /\ spc' = "emit" /\ p = spid
    \/ spc = "killall" /\ spc' = "emitall" /\ p = spid'

\* C35: a termination by pid is only issued for a process that has not been
\* reaped: in no interleaving does stop(job_id) or stop_all() issue a kill
\* for a pid after the runner's wait on that process has returned.
C35_NoKillAfterReap ==
    [][\A r \in Runners :
          (pid[r] # NoPid /\ KillIssued(pid[r])) => proc[r] # "reaped"]_vars

\* the terminal event that the Finish step of run r emits
FinishEvent(r) == result'[r].event

\* run r returns its RenderResult in this step
Finishes(r) == pc[r] = "classify" /\ pc'[r] = "done"

\* C36: the terminal notifications of one job are consistent: a runner emits
\* exactly one of render-stopped, render-complete, render-error for its job,
\* and once a "render-stopped" has been emitted for a job identifier, by the
\* Canceller or by the runner, no completion or error event is emitted for
\* that job.
C36_TerminalEventsConsistent ==
    [][\A r \in Runners :
          Finishes(r) =>
              /\ FinishEvent(r) \in {"render-stopped", "render-complete", "render-error"}
              /\ notified[job[r]] > 0 => FinishEvent(r) = "render-stopped"]_vars

\* C37: when a job identifier is launched again while its first run is
\* still active, the two runs do not interfere through the registry: the
\* cleanup of one run does not remove the ProcessRecord of the other run's
\* process, which is still running, and the stop flag is not consumed by the
\* take_stopped of a run whose process stop did not aim at.
C37_SameIdRunsDoNotInterfere ==
    [][\A r, q \in Runners :
          (r # q /\ job[r] = job[q] /\ proc[q] = "running" /\ OwnRecord(q))
              => /\ (pc[r] = "remove" /\ pc'[r] = "classify")
                       => get_pid(processes', job[q]) = pid[q]
                 /\ (pc[r] = "take" /\ pc'[r] = "join" /\ wasStopped'[r])
                       => ~(spc = "kill" /\ spid = pid[q])]_vars


\* a step of stop(A), take_stopped(A) or unregister(A), for job identifier A:
\* the locked block of stop_ffmpeg_render, its kill, or a runner of A taking
\* the flag or removing the record
StepOfJob(A) ==
    \/ IsStopCall(A)
    \/ spc = "kill" /\ spc' = "emit" /\ sjob = A
    \/ spc = "emit" /\ spc' = "returned" /\ sjob = A
    \/ \E r \in Runners :
          /\ job[r] = A
          /\ \/ pc[r] = "take" /\ pc'[r] = "join"
             \/ pc[r] = "remove" /\ pc'[r] = "classify"

\* C38: jobs with distinct identifiers are isolated: stop(A), take_stopped(A)
\* and unregister(A) leave the ProcessRecord and the stop flag of every other
\* job B unchanged, issue no kill for the pid of a process of B, and never
\* make the result of B "stopped" (the flag that a run of B has taken, from
\* which it is classified, does not change).
C38_DistinctIdsIsolated ==
    [][\A A \in JobIds : \A B \in JobIds \ {A} :
          StepOfJob(A) =>
              /\ has_process(processes', B) = has_process(processes, B)
              /\ get_pid(processes', B) = get_pid(processes, B)
              /\ (B \in stopped') = (B \in stopped)
              /\ \A q \in Runners :
                    (job[q] = B /\ proc[q] \notin {"none", "reaped"})
                        => /\ KillIssued(pid[q]) => spc = "killall"
                           /\ proc'[q] = proc[q]
                           /\ wasStopped'[q] = wasStopped[q]]_vars


(* -------------------- fair scheduling and a kill that works ------------- *)
\* one step of a running call of run_ffmpeg_render on slot r, the ones that
\* the thread takes by itself once it is scheduled (and the mutex is free)
RunnerStep(r) ==
    \/ SpawnOk(r) \/ Register(r) \/ StartReaders(r) \/ Wait(r)
    \/ TakeStoppedLockErr(r) \/ TakeStopped(r) \/ JoinStdout(r)
    \/ (\E n \in DiagCounts : JoinStderr(r, n))
    \/ RemoveLockErr(r) \/ (\E ok \in BOOLEAN : Remove(r, ok)) \/ Finish(r)

\* the steps of the canceller after its locked block, with a kill that takes
\* effect
EffectiveKillStep ==
    \/ StopKill(TRUE)
    \/ StopEmit
    \/ \E pair \in skill : StopAllKill(pair, TRUE)
    \/ StopAllEmit
    \/ StopAllReturn

\* Next with every kill taking effect
EffectiveNext ==
    \/ \E r \in Runners, j \in JobIds : NotConfigured(r, j)
    \/ \E r \in Runners, j \in JobIds : LaunchLockErr(r, j)
    \/ \E r \in Runners, j \in JobIds : Launch(r, j)
    \/ \E r \in Runners : SpawnFail(r)
    \/ \E r \in Runners : RunnerStep(r)
    \/ \E r \in Runners : StdoutEnd(r)
    \/ \E r \in Runners : StderrEnd(r)
    \/ \E r \in Runners : WaitErr(r)
    \/ \E r \in Runners, st \in {"exit_ok", "exit_fail"} : ProcExit(r, st)
    \/ \E j \in JobIds : StopLockErr(j)
    \/ \E j \in JobIds, ok \in BOOLEAN : StopMark(j, ok)
    \/ StopAllLockErr
    \/ \E written \in PrintCounts : StopAllMark(written)
    \/ EffectiveKillStep

\* every thread that can take a step is eventually scheduled; the tool is
\* not required to exit by itself, nobody is required to call a command, and
\* a reader is not required to reach the end of its stream (a reader blocked
\* in a read has no step to be scheduled for)
FairSpec ==
    /\ Init /\ [][EffectiveNext]_vars
    /\ \A r \in Runners : WF_vars(RunnerStep(r))
    /\ WF_vars(EffectiveKillStep)

\* stop_ffmpeg_render has returned true after issuing the kill for pid p
StopReturnedTrue(p) == spc = "returned" /\ sret = "true" /\ spid = p

\* the process with pid p has exited, its runner has returned a RenderResult
\* and no ProcessRecord holds p any more (a slot that has been launched again
\* no longer shows the call that ran p)
StopCompleted(p) ==
    /\ \A j \in DOMAIN processes : processes[j].pid # p
    /\ \A r \in Runners :
          pid[r] = p => Exited(r) /\ pc[r] = "done" /\ result[r] # NoResult

\* C34: under fair scheduling and an effective kill, every stop(job_id) that
\* returns true is eventually followed by the exit of the job's process, a
\* RenderResult of its runner and the removal of the job's ProcessRecord,
\* without any step of the external tool.
C34_StopEventuallyCompletes ==
    \A p \in 1..MaxLaunches : StopReturnedTrue(p) ~> StopCompleted(p)
====
